---------------------------- MODULE Spec2Model ----------------------------
(***************************************************************************)
(* A model of the kikaounique web client: the optimistic contribution      *)
(* write of the Contributions page (src/pages/Dashboard.tsx and the        *)
(* variant in unnamed/part_003), the month-range computation it uses, the  *)
(* idle-session guard ProtectedRoute with the IdleTimer of Layout, the     *)
(* dashboard and admin tabs, the CSV export and the sign-up forms.         *)
(*                                                                         *)
(* One module, several specifications over the same variables:             *)
(*   SpecMonths   the month-range computation as a pure function           *)
(*   SpecContrib  the Contributions page against the contributions table   *)
(*   SpecForm     the contribution form alone                              *)
(*   SpecGuard    one ProtectedRoute instance and its timers               *)
(*   SpecRoute    the guard together with the IdleTimer of Layout          *)
(*   SpecMonthly  the monthly view of the dashboard                        *)
(*   SpecAdmin    the expenses, CSR and profile calls of the admin tabs    *)
(*   SpecCsv      the CSV export and its reading back                      *)
(*   SpecSignup   the sign-up, reset and forgot-password forms             *)
(*   SpecRealtime the change-notification channels of the pages            *)
(*   SpecDedup    the duplicate member rows of the Profile page            *)
(*   SpecSessionProp  the guard that is handed the session by App          *)
(*   SpecTab      sign-out and the next login in the same browser tab      *)
(*   SpecExpenses the Expenses page: rows, paging and filters              *)
(*   SpecBulk     the bulk upload of the Contributions page                *)
(***************************************************************************)
EXTENDS Integers, Sequences, FiniteSets, TLC

VARIABLES
    \* ---- month-range computation (SpecMonths)
    rangeIn,            \* the form's fromYear/fromMonth/toYear/toMonth
    rangePc,            \* "input" | "built" | "rejected"
    months,             \* the list of {year, month} built by the loop
    \* ---- Contributions page (SpecContrib)
    variant,            \* which source of the page runs: "Dashboard" | "part_003"
    table,              \* rows of the contributions table of the backend
    nextId,             \* next primary key the backend hands out
    contributions,      \* useState contributions: the list shown
    showAddContribution,\* useState: the form is open
    newContribution,    \* useState: the form's fields
    isAddingContribution,\* useState of part_003: a submission is running
    subs,               \* the running calls of handleAddContribution
    fetches,            \* the calls of fetchData still running, in call order
    pendingChanges,     \* postgres_changes events not yet delivered to the page
    addOutcome,         \* where the last call of handleAddContribution returned
    \* ---- ProtectedRoute under the route table of App (SpecGuard)
    path,               \* the location the router shows
    hasSession,         \* the auth client holds a valid session
    loading,            \* useState loading of ProtectedRoute
    showWarning,        \* useState showWarning of ProtectedRoute
    timeout,            \* the inactivity timer of the effect
    warningTimeout,     \* the logout timer started with the warning
    authPc,             \* "pending" while getSession has not answered
    authTimeout,        \* the timer that bounds the session check
    signingOut,         \* causes of the safeSignOut calls awaiting signOut()
    authEvents,         \* auth state change events delivered so far
    sessionSeen,        \* the guard was handed a session
    idle,               \* minutes since the last activity event
    quiet,              \* minutes since the last call of resetTimeout
    dismissed,          \* a warning was cancelled by activity
    signedOut,          \* cause and result of the last safeSignOut that ended
    \* ---- Dashboard page: monthly aggregation (SpecMonthly)
    contributionsData,  \* rows of the contributions table the select returns
    expData,            \* rows of the expenses table the select returns
    tzWest,             \* the browser's time zone is west of UTC
    dashContributions,  \* useState contributions of Dashboard
    expensesData,       \* useState expensesData of Dashboard
    yearFilter,         \* useState yearFilter of Dashboard
    monthlyData,        \* useState monthlyData of Dashboard
    \* ---- admin gate, CSR, Expenses and Profile pages (SpecAdmin)
    adminPage,          \* the page that is mounted and which source of it
    sessionFlags,       \* the admin keys sessionStorage holds
    isAdmin,            \* the page's admin flag (adminValidated / isAdmin)
    adminVia,           \* how the flag of the mounted page became set
    adminPasswordInput, \* the password field
    adminSignInOpen,    \* the sign-in dialog of CSR is open
    memberRows,         \* the member rows of the signed-in user
    lastWrite,          \* the last gated write sent, with the flag then
    csrTable,           \* csr_projects with their csr_contributions
    projects,           \* useState projects of CSR
    csrCall,            \* the running handleAddProject / handleAddContribution
    csrEvents,          \* change events not yet delivered to CSR
    csrFetch,           \* the running fetch of the projects
    \* ---- CSV export of the Contributions page (SpecCsv)
    csvView,            \* which source runs, its contributions and its filters
    csvText,            \* the text exportCSV produced
    csvData,            \* the export parsed back
    \* ---- sign-up, password reset, forgot password (SpecSignup)
    suPage,             \* which page runs
    suForm,             \* the fields of its form
    suError,            \* the inline error, "none" for null
    suMessage,          \* the alert or the message shown, "none" for none
    suLoading,          \* the loading flag
    suCall,             \* the backend call awaited, "wait" for the timer
    poll,               \* attempt, base delay and last delay of pollForProfile
    pollResult,         \* what pollForProfile returned
    \* ---- Profile: createProfileFromAuth (SpecAdmin)
    profileCall,        \* the insert of the member row and its attempts
    \* ---- IdleTimer of Layout (SpecRoute)
    timerRef,           \* its timer
    \* ---- change-notification channels of the pages (SpecRealtime)
    rtPage,             \* the page component that is mounted, with its mount
    mountNo,            \* how many pages were mounted so far
    rtInit,             \* the calls of Expenses.initialize still awaiting
    channels,           \* the channels subscribed at the realtime client
    lastEvent,          \* the last table change and the fetches it started
    \* ---- Profile: duplicate member rows (SpecDedup)
    membersTable,       \* the rows of the members table
    profileIsAdmin,     \* useState isAdmin of Profile
    duplicateMembers,   \* useState duplicateMembers
    selectedKeepId,     \* useState selectedKeepId, "null" for null
    dedupCall,          \* the running fetchProfile or delete call
    dedupDone,          \* how the last delete call ended
    \* ---- App and ProtectedRoute with a session prop (SpecSessionProp)
    session,            \* useState session of App, "null" for null
    effectSession,      \* the session prop the guard's effect last ran with
    \* ---- sign-out and the next login in the same tab (SpecTab)
    flagsAtLogin,       \* the admin keys sessionStorage held at the last login
    \* ---- Expenses page: rows, paging and filters (SpecExpenses)
    expSource,          \* which source of the page runs
    expensesTable,      \* the rows of the expenses table, in insertion order
    expPage,            \* useState page
    statusFilter,       \* useState statusFilter
    startDate,          \* useState startDate, NoDate for ""
    endDate,            \* useState endDate, NoDate for ""
    expensesShown,      \* useState expenses: the rows shown
    xpLoading,          \* useState loading of the page
    xpIsAdmin,          \* useState isAdmin of the page
    expFetches,         \* the calls of fetchExpenses not yet answered
    subscribed,         \* the page's channel is subscribed
    expEvents,          \* change events not yet delivered to the page
    justFetched,        \* the call of fetchExpenses the last step completed
    \* ---- Contributions page: bulk upload (SpecBulk)
    parsedRows,         \* parsedData.data of the running handleBulkUpload
    bulkMembers,        \* members as the running handler holds it
    membersState,       \* useState members as setMembers leaves it
    bulkTable,          \* the rows of the members table
    rowNo,              \* the row the loop is at
    contributionsToAdd, \* the rows collected for the upsert
    bulkOutcome         \* where the handler is or how it ended

monthVars == <<rangeIn, rangePc, months>>
contribVars == <<variant, table, nextId, contributions, showAddContribution,
                 newContribution, isAddingContribution, subs, fetches,
                 pendingChanges, addOutcome>>
guardVars == <<path, hasSession, loading, showWarning, timeout, warningTimeout,
               authPc, authTimeout, signingOut, authEvents, sessionSeen, idle,
               quiet, dismissed, signedOut>>
dashVars == <<contributionsData, expData, tzWest, dashContributions,
              expensesData, yearFilter, monthlyData>>
\* The parts added to the model after the first three.
adminVars == <<adminPage, sessionFlags, isAdmin, adminVia, adminPasswordInput,
               adminSignInOpen, memberRows, lastWrite, csrTable, projects,
               csrCall, csrEvents, csrFetch>>
csvVars == <<csvView, csvText, csvData>>
authVars == <<suPage, suForm, suError, suMessage, suLoading, suCall, poll,
              pollResult>>
rtVars == <<rtPage, mountNo, rtInit, channels, lastEvent>>
dedupVars == <<membersTable, profileIsAdmin, duplicateMembers, selectedKeepId,
               dedupCall, dedupDone>>
propVars == <<session, effectSession>>
xpVars == <<expSource, expensesTable, expPage, statusFilter, startDate, endDate,
            expensesShown, xpLoading, xpIsAdmin, expFetches, subscribed,
            expEvents, justFetched>>
bulkVars == <<parsedRows, bulkMembers, membersState, bulkTable, rowNo,
              contributionsToAdd, bulkOutcome>>
newVars == <<xpVars, bulkVars>>
tailVars == <<rtVars, dedupVars, propVars, flagsAtLogin, newVars>>
lateVars == <<dashVars, adminVars, csvVars, authVars, profileCall, timerRef,
              tailVars>>
vars == <<monthVars, contribVars, guardVars, lateVars>>

\* What an action of one part leaves alone.
notMonthVars == <<contribVars, guardVars, lateVars>>
notContribVars == <<monthVars, guardVars, lateVars>>
notGuardVars == <<monthVars, contribVars, lateVars>>
earlyVars == <<monthVars, contribVars, guardVars>>
notDashVars == <<earlyVars, adminVars, csvVars, authVars, profileCall, timerRef,
    tailVars>>
notAdminVars == <<earlyVars, dashVars, csvVars, authVars, profileCall, timerRef,
    tailVars>>
notCsvVars == <<earlyVars, dashVars, adminVars, authVars, profileCall, timerRef,
    tailVars>>
notAuthVars == <<earlyVars, dashVars, adminVars, csvVars, profileCall, timerRef,
    tailVars>>
notProfileVars == <<earlyVars, dashVars, csvVars, authVars, timerRef,
    tailVars>>
notRouteVars == <<monthVars, contribVars, dashVars, adminVars, csvVars, authVars,
                  profileCall, tailVars>>
oldVars == <<earlyVars, dashVars, adminVars, csvVars, authVars, profileCall,
             timerRef>>
notRtVars == <<oldVars, dedupVars, propVars, flagsAtLogin, newVars>>
notDedupVars == <<oldVars, rtVars, propVars, flagsAtLogin, newVars>>
notPropVars == <<monthVars, contribVars, dashVars, adminVars, csvVars, authVars,
                 profileCall, timerRef, rtVars, dedupVars, flagsAtLogin,
                 newVars>>
notTabVars == <<earlyVars, dashVars, csvVars, authVars, profileCall, timerRef,
                rtVars, dedupVars, propVars, newVars>>
notXpVars == <<oldVars, rtVars, dedupVars, propVars, flagsAtLogin, bulkVars>>
notBulkVars == <<oldVars, rtVars, dedupVars, propVars, flagsAtLogin, xpVars>>

-----------------------------------------------------------------------------
(* Dates as the handler uses them: new Date(year, monthIndex, 1).          *)

\* new Date().getFullYear() / getMonth() + 1 at the time the page runs.
Today == [year |-> 2024, month |-> 12]

\* The year <select> offers currentYear - 2 .. currentYear + 2, the month
\* <select> offers 1 .. 12.
YearOptions == (Today.year - 2) .. (Today.year + 2)
MonthOptions == 1 .. 12

\* new Date(y, mi, 1): a month index outside 0..11 carries into the year.
\* The result is kept as getFullYear() and getMonth().
NewDateNoCarry(y, mi) == [year |-> y, mon |-> mi]
NewDate(y, mi) == [year |-> y + (mi \div 12), mon |-> mi % 12]

\* Date comparison compares the time values; for first-of-month dates the
\* time value is monotonic in year * 12 + month index.
TimeValue(d) == d.year * 12 + d.mon

DateLE(a, b) == TimeValue(a) <= TimeValue(b)
DateGT(a, b) == TimeValue(a) > TimeValue(b)

\* cursor = new Date(cursor.getFullYear(), cursor.getMonth() + 1, 1)
NextCursor(c) == NewDate(c.year, c.mon + 1)

\* while (cursor <= end) { months.push({year, month: getMonth() + 1}); step }
RECURSIVE BuildMonths(_, _, _)
BuildMonths(cursor, end, acc) ==
    IF DateLE(cursor, end)
    THEN BuildMonths(NextCursor(cursor), end,
                     Append(acc, [year |-> cursor.year, month |-> cursor.mon + 1]))
    ELSE acc

StartOf(nc) == NewDate(nc.fromYear, nc.fromMonth - 1)
EndOf(nc) == NewDate(nc.toYear, nc.toMonth - 1)

\* if (start > end) { alert(...); return; }
RangeRejected(nc) == DateGT(StartOf(nc), EndOf(nc))

MonthsOf(nc) == BuildMonths(StartOf(nc), EndOf(nc), <<>>)

-----------------------------------------------------------------------------
(* The month-range computation on its own: every from/to the form offers.  *)

InitMonths ==
    /\ rangeIn \in [member_id : {"m1"}, amount : {2000},
                    fromYear : YearOptions, fromMonth : MonthOptions,
                    toYear : YearOptions, toMonth : MonthOptions]
    /\ rangePc = "input"
    /\ months = <<>>

\* Lines 2161-2167: the range check returns before anything is built.
RejectRange ==
    /\ rangePc = "input"
    /\ RangeRejected(rangeIn)
    /\ rangePc' = "rejected"
    /\ UNCHANGED <<rangeIn, months, notMonthVars>>

\* Lines 2169-2175: the loop that fills months.
BuildRange ==
    /\ rangePc = "input"
    /\ ~RangeRejected(rangeIn)
    /\ months' = MonthsOf(rangeIn)
    /\ rangePc' = "built"
    /\ UNCHANGED <<rangeIn, notMonthVars>>

-----------------------------------------------------------------------------
(* Strings the page writes to and reads from the backend.                  *)

\* The decimal digits of a natural number, most significant first.
RECURSIVE ToDigits(_)
ToDigits(n) == IF n < 10 THEN <<n>> ELSE Append(ToDigits(n \div 10), n % 10)

\* String(x).padStart(2, '0')
PadStart2(ds) == IF Len(ds) < 2 THEN <<0>> \o ds ELSE ds

\* Number(s) of a string of decimal digits.
RECURSIVE ToNumber(_)
ToNumber(ds) ==
    IF ds = <<>> THEN 0
    ELSE ToNumber(SubSeq(ds, 1, Len(ds) - 1)) * 10 + ds[Len(ds)]

\* `${m.year}-${String(m.month).padStart(2,'0')}-01`, kept as the parts
\* between the dashes.
ContributionMonth(m) ==
    [y |-> ToDigits(m.year), m |-> PadStart2(ToDigits(m.month)), d |-> <<0, 1>>]

\* /^\d{4}-\d{2}/.test(monthRaw)
IsIsoMonth(raw) == Len(raw.y) = 4 /\ Len(raw.m) >= 2

\* Number(parts[0]) || year ; Number(parts[1]) || month
OrElse(n, dflt) == IF n = 0 THEN dflt ELSE n

\* fetchData's map of one backend row to a row of the list. Every row the
\* page writes has an ISO contribution_month; the Date-parsing fallback is
\* left at the defaults the code starts from.
MapRow(d) ==
    LET iso == IsIsoMonth(d.contribution_month)
    IN  [id |-> d.id,
         month |-> IF iso THEN OrElse(ToNumber(d.contribution_month.m), Today.month)
                   ELSE Today.month,
         year |-> IF iso THEN OrElse(ToNumber(d.contribution_month.y), Today.year)
                  ELSE Today.year,
         amount |-> OrElse(d.amount, 0),
         member_id |-> d.member_id]

-----------------------------------------------------------------------------
(* The contributions table of the backend.                                 *)

\* Bounds of the Contributions page model.
MaxCalls == 2       \* calls of handleAddContribution running at one time
MaxEvents == 1      \* change events queued or being answered at one time

\* Primary keys of the backend and the temporary ids of the client. A
\* temporary id `temp-${Date.now()}-${random}` is taken to be fresh: the
\* pair (call, index) stands for it.
ServerId(n) == <<"srv", n, 0>>
TempId(k, i) == <<"temp", k, i>>
IsTempId(id) == id[1] = "temp"

KeyOf(r) == <<r.member_id, r.contribution_month>>

\* .insert(rows): every row becomes a new row of the table.
RECURSIVE InsertAll(_, _, _)
InsertAll(tbl, rows, n) ==
    IF rows = <<>> THEN tbl
    ELSE InsertAll(tbl \cup {[id |-> ServerId(n),
                              member_id |-> Head(rows).member_id,
                              contribution_month |-> Head(rows).contribution_month,
                              amount |-> Head(rows).amount]},
                   Tail(rows), n + 1)

\* .upsert(rows, { onConflict: ['member_id', 'contribution_month'] }): a row
\* whose (member_id, contribution_month) is already in the table updates that
\* row and keeps its id; any other row is inserted under a new id.
RECURSIVE Upsert(_, _, _)
Upsert(tbl, rows, n) ==
    IF rows = <<>> THEN tbl
    ELSE LET r == Head(rows)
             hit == {t \in tbl : KeyOf(t) = KeyOf(r)}
         IN  IF hit = {}
             THEN Upsert(tbl \cup {[id |-> ServerId(n),
                                    member_id |-> r.member_id,
                                    contribution_month |-> r.contribution_month,
                                    amount |-> r.amount]},
                         Tail(rows), n + 1)
             ELSE Upsert((tbl \ hit) \cup {[t EXCEPT !.amount = r.amount] : t \in hit},
                         Tail(rows), n)

\* The rows of a select, in primary-key order.
RECURSIVE RowsOf(_)
RowsOf(tbl) ==
    IF tbl = {} THEN <<>>
    ELSE LET first == CHOOSE t \in tbl : \A u \in tbl : t.id[2] <= u.id[2]
         IN  <<first>> \o RowsOf(tbl \ {first})

MapRows(rows) == [i \in DOMAIN rows |-> MapRow(rows[i])]

-----------------------------------------------------------------------------
(* The Contributions page: form, optimistic insert, upsert, re-fetch.      *)

Variants == {"Dashboard", "part_003"}

\* useState(newContribution): today's month and year, amount 2000, no member.
DefaultForm ==
    [member_id |-> "", amount |-> 2000,
     fromMonth |-> Today.month, fromYear |-> Today.year,
     toMonth |-> Today.month, toYear |-> Today.year]

\* What the user enters in this model: a one-month form for member m1, and
\* that form with one part changed: no member, an amount of 0 or below, a
\* range into January of the next year, a range that ends before it starts
\* (in the same year, and in the year before).
OneMonthForm == [DefaultForm EXCEPT !.member_id = "m1"]
TwoMonthForm == [OneMonthForm EXCEPT !.toMonth = 1, !.toYear = Today.year + 1]
ValidForms == {TwoMonthForm}
FormChoices ==
    { OneMonthForm,
      [OneMonthForm EXCEPT !.member_id = ""],
      [OneMonthForm EXCEPT !.amount = 0],
      [OneMonthForm EXCEPT !.amount = -500],
      TwoMonthForm,
      [OneMonthForm EXCEPT !.toMonth = Today.month - 1],
      [OneMonthForm EXCEPT !.fromMonth = 1, !.toYear = Today.year - 1] }

\* The form written back after a successful submission: amount 5000 in
\* Dashboard.tsx (line 2248), 2000 in part_003 (line 372).
ResetForm(v) ==
    [DefaultForm EXCEPT !.amount = IF v = "Dashboard" THEN 5000 ELSE 2000]

\* Rows the table may hold when the page is mounted.
InitialTables ==
    { { [id |-> ServerId(1), member_id |-> "m2",
         contribution_month |-> ContributionMonth([year |-> 2024, month |-> 12]),
         amount |-> 2000],
        [id |-> ServerId(2), member_id |-> "m1",
         contribution_month |-> ContributionMonth([year |-> 2025, month |-> 1]),
         amount |-> 5000] } }


InFlight(s) == s.pc \in {"upsert", "answered"}
Running(s) == s.pc # "idle"

\* The frames of handleAddContribution: a call takes the first free one and
\* gives it back when it returns.
Calls == 1 .. MaxCalls
NoCall == [pc |-> "idle"]
FreeCall ==
    CHOOSE k \in Calls :
        ~Running(subs[k]) /\ \A j \in Calls : j < k => Running(subs[j])

\* The page once the fetchData of its mount effect has stored the rows.
InitContrib ==
    /\ variant \in Variants
    /\ table \in InitialTables
    /\ nextId = Cardinality(table) + 1
    /\ contributions = MapRows(RowsOf(table))
    /\ showAddContribution = FALSE
    /\ newContribution = DefaultForm
    /\ isAddingContribution = FALSE
    /\ subs = [k \in Calls |-> NoCall]
    /\ fetches = <<>>
    /\ pendingChanges = 0
    /\ addOutcome = "none"


\* Every submission other than k that still waits for its upsert sees that
\* another event changed the list.
TouchOthers(ss, k) ==
    [i \in DOMAIN ss |->
        IF i # k /\ InFlight(ss[i])
        THEN [ss[i] EXCEPT !.touched = TRUE, !.before = <<>>] ELSE ss[i]]

\* onClick={() => setShowAddContribution(true)} / (false)
OpenForm ==
    /\ ~showAddContribution
    /\ showAddContribution' = TRUE
    /\ UNCHANGED <<variant, table, nextId, contributions, newContribution,
                   isAddingContribution, subs, fetches, pendingChanges,
                   addOutcome,
                   notContribVars>>

CancelForm ==
    /\ showAddContribution
    /\ showAddContribution' = FALSE
    /\ UNCHANGED <<variant, table, nextId, contributions, newContribution,
                   isAddingContribution, subs, fetches, pendingChanges,
                   addOutcome,
                   notContribVars>>

\* The onChange handlers of the form's inputs, each
\* setNewContribution({...newContribution, field: value}); the form is
\* rendered only while showAddContribution is set.
EditForm(choices) ==
    /\ showAddContribution
    /\ \E nc \in choices :
          /\ nc # newContribution
          /\ newContribution' = nc
    /\ UNCHANGED <<variant, table, nextId, contributions, showAddContribution,
                   isAddingContribution, subs, fetches, pendingChanges,
                   addOutcome,
                   notContribVars>>

\* The early returns of handleAddContribution, in the order of the code:
\* part_003 line 309 (a submission is running), then no member, amount <= 0,
\* start > end. "submitted" when none applies.
ValidateNoRangeCheck(v, busy, nc) ==
    IF v = "part_003" /\ busy THEN "busy"
    ELSE IF nc.member_id = "" THEN "no member"
    ELSE IF nc.amount <= 0 THEN "bad amount"
    ELSE "submitted"
ValidateNoBusyCheck(v, busy, nc) ==
    IF nc.member_id = "" THEN "no member"
    ELSE IF nc.amount <= 0 THEN "bad amount"
    ELSE IF RangeRejected(nc) THEN "bad range"
    ELSE "submitted"
Validate(v, busy, nc) ==
    IF v = "part_003" /\ busy THEN "busy"
    ELSE IF nc.member_id = "" THEN "no member"
    ELSE IF nc.amount <= 0 THEN "bad amount"
    ELSE IF RangeRejected(nc) THEN "bad range"
    ELSE "submitted"

\* optimisticEntries: one row per month, under its temporary id.
OptimisticEntries(k, nc, ms) ==
    [i \in DOMAIN ms |->
        [id |-> TempId(k, i), month |-> ms[i].month, year |-> ms[i].year,
         amount |-> nc.amount, member_id |-> nc.member_id]]

\* inserts: the upsert batch, one row per month.
Inserts(nc, ms) ==
    [i \in DOMAIN ms |->
        [member_id |-> nc.member_id, amount |-> nc.amount,
         contribution_month |-> ContributionMonth(ms[i])]]

\* handleAddContribution from its call to the await of the upsert: the
\* checks, the month list, the optimistic rows in front of the list, the form
\* closed, the upsert request sent.
HandleAddContribution ==
    /\ showAddContribution
    /\ LET out == Validate(variant, isAddingContribution, newContribution)
           k == FreeCall
           ms == MonthsOf(newContribution)
       IN  /\ out = "submitted" => \E j \in Calls : ~Running(subs[j])
           /\ addOutcome' = out
           /\ IF out # "submitted"
              THEN UNCHANGED <<contributions, showAddContribution, subs,
                               isAddingContribution>>
              ELSE /\ contributions' =
                          OptimisticEntries(k, newContribution, ms) \o contributions
                   /\ showAddContribution' = FALSE
                   /\ isAddingContribution' = (variant = "part_003")
                   /\ subs' = [TouchOthers(subs, k) EXCEPT ![k] =
                          [pc |-> "upsert",
                           form |-> newContribution,
                           tempIds |-> {TempId(k, i) : i \in DOMAIN ms},
                           inserts |-> Inserts(newContribution, ms),
                           outcome |-> "none",
                           before |-> contributions,
                           touched |-> FALSE]]
    /\ UNCHANGED <<variant, table, nextId, newContribution, fetches, pendingChanges,
                   notContribVars>>

\* The fetchData calls of change events that are running.
EventFetches == Cardinality({i \in DOMAIN fetches : fetches[i].by = 0})

\* The backend handles the upsert request of call k: it applies the batch
\* and queues a change event for the page, or answers with an error. An
\* event queued behind one not yet delivered is delivered with it; the
\* batch is not applied while the events under way are at their bound and
\* none of them is still queued.
ServerUpsert(k) ==
    /\ subs[k].pc = "upsert"
    /\ \E ok \in BOOLEAN :
          /\ subs' = [subs EXCEPT ![k].pc = "answered",
                                  ![k].outcome = IF ok THEN "ok" ELSE "error"]
          /\ IF ok
             THEN /\ pendingChanges + EventFetches < MaxEvents \/ pendingChanges > 0
                  /\ table' = Upsert(table, subs[k].inserts, nextId)
                  /\ nextId' = nextId + Cardinality(table') - Cardinality(table)
                  /\ pendingChanges' =
                        IF pendingChanges + EventFetches < MaxEvents
                        THEN pendingChanges + 1 ELSE pendingChanges
             ELSE UNCHANGED <<table, nextId, pendingChanges>>
    /\ UNCHANGED <<variant, contributions, showAddContribution, newContribution,
                   isAddingContribution, fetches, addOutcome,
                   notContribVars>>

\* Another client of the same backend changes a row of the table: a member
\* other than the one of the form pays more for a month already recorded. The
\* page is told by a postgres_changes event, as for its own writes.
ExternalChange ==
    /\ pendingChanges + EventFetches < MaxEvents
    /\ \E t \in table :
          /\ t.member_id = "m2"
          /\ t.amount = 2000
          /\ table' = (table \ {t}) \cup {[t EXCEPT !.amount = 2500]}
    /\ pendingChanges' = pendingChanges + 1
    /\ UNCHANGED <<variant, nextId, contributions, showAddContribution,
                   newContribution, isAddingContribution, subs, fetches,
                   addOutcome, notContribVars>>

\* The rollback: prev.filter(c => !tempIds.includes(c.id))
RollbackAllTemp(list, ids) == SelectSeq(list, LAMBDA c : ~IsTempId(c.id))
Rollback(list, ids) == SelectSeq(list, LAMBDA c : c.id \notin ids)

\* The upsert of call k fails at the client: it returned { error }, or the
\* await threw (the request or its response was lost). The optimistic rows of
\* the call are filtered out; part_003 clears isAddingContribution in finally.
UpsertFailed(k) ==
    /\ subs[k].pc = "answered"
    /\ \E thrown \in BOOLEAN :
          /\ subs[k].outcome = "error" \/ thrown
          /\ contributions' = Rollback(contributions, subs[k].tempIds)
          /\ subs' = [TouchOthers(subs, k) EXCEPT ![k] = NoCall]
          /\ isAddingContribution' = FALSE
          /\ addOutcome' = "rolled back"
    /\ UNCHANGED <<variant, table, nextId, showAddContribution, newContribution,
                   fetches, pendingChanges,
                   notContribVars>>

\* fetchData sends its select and the backend answers it with the rows it
\* holds. Nothing the page shows changes between the call of fetchData and
\* the backend reading the table, so the two are one step, taken when the
\* backend reads. The select is taken to succeed.
Selected == MapRows(RowsOf(table))

\* The upsert of call k succeeded: await fetchData() is started.
UpsertSucceeded(k) ==
    /\ subs[k].pc = "answered"
    /\ subs[k].outcome = "ok"
    /\ subs' = [subs EXCEPT ![k].pc = "refetch",
                            ![k].before = <<>>, ![k].touched = TRUE]
    /\ fetches' = Append(fetches, [pc |-> "answered", by |-> k, rows |-> Selected])
    /\ UNCHANGED <<variant, table, nextId, contributions, showAddContribution,
                   newContribution, isAddingContribution, pendingChanges,
                   addOutcome,
                   notContribVars>>

\* A postgres_changes event reaches the page: its callback calls fetchData.
ChangeEvent ==
    /\ pendingChanges > 0
    /\ pendingChanges' = pendingChanges - 1
    /\ fetches' = Append(fetches, [pc |-> "answered", by |-> 0, rows |-> Selected])
    /\ UNCHANGED <<variant, table, nextId, contributions, showAddContribution,
                   newContribution, isAddingContribution, subs, addOutcome,
                   notContribVars>>

Without(seq, f) == SubSeq(seq, 1, f - 1) \o SubSeq(seq, f + 1, Len(seq))

\* fetchData of fetch f gets the contributions back: setContributions(mapped).
\* A fetchData started by a change event or by the mount does nothing more to
\* the list and is dropped here; one awaited by handleAddContribution goes on
\* to fetch members and projects before it returns.
FetchStored(f) ==
    /\ fetches[f].pc = "answered"
    /\ contributions' = fetches[f].rows
    /\ subs' = TouchOthers(subs, 0)
    /\ fetches' = IF fetches[f].by = 0 THEN Without(fetches, f)
                  ELSE [fetches EXCEPT ![f].pc = "rest"]
    /\ UNCHANGED <<variant, table, nextId, showAddContribution, newContribution,
                   isAddingContribution, pendingChanges, addOutcome,
                   notContribVars>>

\* What the handler does with the value fetchData returned: Dashboard.tsx
\* stores server.contributions again (lines 2217-2220), part_003 ignores it.
AfterRefetchKeep(v, list, rows) == list
AfterRefetch(v, list, rows) == IF v = "Dashboard" THEN rows ELSE list

\* fetchData returns to the handler of call k, which resets the form;
\* part_003 clears isAddingContribution in finally.
FetchReturned(f) ==
    /\ fetches[f].pc = "rest"
    /\ LET k == fetches[f].by
       IN  /\ contributions' = AfterRefetch(variant, contributions, fetches[f].rows)
           /\ subs' = [TouchOthers(subs, k) EXCEPT ![k] = NoCall]
    /\ fetches' = Without(fetches, f)
    /\ newContribution' = ResetForm(variant)
    /\ isAddingContribution' = FALSE
    /\ addOutcome' = "done"
    /\ UNCHANGED <<variant, table, nextId, showAddContribution, pendingChanges,
                   notContribVars>>

-----------------------------------------------------------------------------
(* The route table of App and the guard ProtectedRoute. Time is counted in *)
(* minutes. The IdleTimer that Layout mounts follows the guard's actions.  *)

\* INACTIVITY_LIMIT = 10 * 60 * 1000 and WARNING_TIME = 1 * 60 * 1000, in
\* minutes.
INACTIVITY_LIMIT == 10
WARNING_TIME == 1

\* Auth state change events the model delivers to one guard.
MaxAuthEvents == 1

\* <Routes> of App: the page of each path and whether the route's element is
\* wrapped in <ProtectedRoute>. Any other path falls to path="*".
RouteTable ==
    [p \in {"/login", "/signup", "/", "/csr", "/contributions", "/expenses",
            "/resources", "/profile"} |->
        CASE p = "/login" -> [page |-> "Login", wrapped |-> FALSE]
          [] p = "/signup" -> [page |-> "Signup", wrapped |-> FALSE]
          [] p = "/" -> [page |-> "Dashboard", wrapped |-> TRUE]
          [] p = "/csr" -> [page |-> "CSR", wrapped |-> TRUE]
          [] p = "/contributions" -> [page |-> "Contributions", wrapped |-> TRUE]
          [] p = "/expenses" -> [page |-> "Expenses", wrapped |-> FALSE]
          [] p = "/resources" -> [page |-> "Resources", wrapped |-> TRUE]
          [] p = "/profile" -> [page |-> "Profile", wrapped |-> TRUE]]

\* The paths a visitor opens: those of the table, and two it does not hold.
Paths == DOMAIN RouteTable \cup {"/reset-password", "/no-such-page"}

Match(p) ==
    IF p \in DOMAIN RouteTable THEN RouteTable[p]
    ELSE [page |-> "NotFound", wrapped |-> FALSE]

\* A ProtectedRoute is mounted exactly while the route shown is a wrapped one.
Mounted == Match(path).wrapped

\* What ProtectedRoute renders (lines 133-166), and the route's page where
\* there is no guard.
Screen ==
    IF ~Mounted THEN Match(path).page
    ELSE IF loading THEN "Checking authentication"
    ELSE IF showWarning THEN "Warning"
    ELSE Match(path).page

\* setTimeout / clearTimeout: a timer is armed with the minutes left, or off.
Off == [armed |-> FALSE, left |-> 0]
SetTimeout(d) == [armed |-> TRUE, left |-> d]
Due(t) == t.armed /\ t.left = 0
Elapse(t) == IF t.armed THEN [t EXCEPT !.left = t.left - 1] ELSE t

\* The delay of the inactivity timer: INACTIVITY_LIMIT - WARNING_TIME.
FullLimitDelay == INACTIVITY_LIMIT
WarningDelay == INACTIVITY_LIMIT - WARNING_TIME

\* resetTimeout: both timers cleared, the warning hidden, the inactivity
\* timer started again.
ResetKeepsLogoutTimer ==
    [timeout |-> SetTimeout(WarningDelay), warningTimeout |-> warningTimeout,
     showWarning |-> FALSE]
ResetTimeout ==
    [timeout |-> SetTimeout(WarningDelay), warningTimeout |-> Off,
     showWarning |-> FALSE]

\* The finally block of safeSignOut: navigate('/login', { replace: true }),
\* whatever signOut() did.
NavigateIfSignedOut(result, p) == IF result = "ok" THEN "/login" ELSE p
AfterSignOut(result, p) == "/login"

SignOutResults == {"ok", "error", "throw"}
Saturate(n) == IF n < INACTIVITY_LIMIT THEN n + 1 ELSE INACTIVITY_LIMIT

\* The app has just been opened at a path: a wrapped route has rendered its
\* guard, whose effect has called checkAuth (getSession sent, authTimeout
\* armed), subscribed to auth changes and added the activity listeners.
InitGuard ==
    /\ path \in Paths
    /\ hasSession \in BOOLEAN
    /\ loading = TRUE
    /\ showWarning = FALSE
    /\ timeout = Off
    /\ warningTimeout = Off
    /\ authPc = IF Match(path).wrapped THEN "pending" ELSE "done"
    /\ authTimeout = IF Match(path).wrapped THEN SetTimeout(0) ELSE Off
    /\ signingOut = {}
    /\ authEvents = 0
    /\ sessionSeen = FALSE
    /\ idle = 0
    /\ quiet = 0
    /\ dismissed = FALSE
    /\ signedOut = [cause |-> "none", result |-> "none"]

\* The guard's variables while another part of the program is modelled.
GuardIdle ==
    /\ path = "/contributions"
    /\ hasSession = TRUE
    /\ loading = FALSE
    /\ showWarning = FALSE
    /\ timeout = Off
    /\ warningTimeout = Off
    /\ authPc = "done"
    /\ authTimeout = Off
    /\ signingOut = {}
    /\ authEvents = 0
    /\ sessionSeen = TRUE
    /\ idle = 0
    /\ quiet = 0
    /\ dismissed = FALSE
    /\ signedOut = [cause |-> "none", result |-> "none"]

\* getSession answers checkAuth (lines 62-93). With a session the guard
\* stops loading and starts the inactivity timer; with none, with an error
\* or with an exception it calls safeSignOut. The await may resume after the
\* guard was unmounted. authTimeout is cleared after the await, not in catch.
SessionAnswered ==
    /\ authPc = "pending"
    /\ authPc' = "done"
    /\ \E answer \in {IF hasSession THEN "session" ELSE "none", "error", "throw"} :
          /\ authTimeout' = IF answer = "throw" THEN authTimeout ELSE Off
          /\ IF answer = "session"
             THEN /\ loading' = FALSE
                  /\ timeout' = ResetTimeout.timeout
                  /\ warningTimeout' = ResetTimeout.warningTimeout
                  /\ showWarning' = ResetTimeout.showWarning
                  /\ sessionSeen' = TRUE
                  /\ quiet' = 0
                  /\ UNCHANGED signingOut
             ELSE /\ signingOut' = signingOut \cup {"no session"}
                  /\ UNCHANGED <<loading, timeout, warningTimeout, showWarning,
                                 sessionSeen, quiet>>
    /\ UNCHANGED <<path, hasSession, authEvents, idle, dismissed, signedOut,
                   notGuardVars>>

\* The 8 s timer of checkAuth fires (lines 58-61).
AuthTimedOut ==
    /\ Due(authTimeout)
    /\ authTimeout' = Off
    /\ signingOut' = signingOut \cup {"auth timeout"}
    /\ UNCHANGED <<path, hasSession, loading, showWarning, timeout,
                   warningTimeout, authPc, authEvents, sessionSeen, idle, quiet,
                   dismissed, signedOut, notGuardVars>>

\* The onAuthStateChange callback (lines 99-108), called with the session
\* the client holds: the initial session, a sign-in, a refreshed token, a
\* sign-out.
AuthStateChange ==
    /\ Mounted
    /\ authEvents < MaxAuthEvents
    /\ authEvents' = authEvents + 1
    /\ IF hasSession
       THEN /\ loading' = FALSE
            /\ timeout' = ResetTimeout.timeout
            /\ warningTimeout' = ResetTimeout.warningTimeout
            /\ showWarning' = ResetTimeout.showWarning
            /\ sessionSeen' = TRUE
            /\ quiet' = 0
            /\ UNCHANGED signingOut
       ELSE /\ signingOut' = signingOut \cup {"no session"}
            /\ UNCHANGED <<loading, timeout, warningTimeout, showWarning,
                           sessionSeen, quiet>>
    /\ UNCHANGED <<path, hasSession, authPc, authTimeout, idle, dismissed,
                   signedOut, notGuardVars>>

ActivityEvents == {"mousemove", "keydown", "click", "scroll"}

\* One of the four events reaches the window: resetTimeout is its listener
\* while a guard is mounted (lines 111-113).
GuardActivity ==
    /\ idle' = 0
    /\ IF Mounted
       THEN /\ timeout' = ResetTimeout.timeout
            /\ warningTimeout' = ResetTimeout.warningTimeout
            /\ showWarning' = ResetTimeout.showWarning
            /\ quiet' = 0
            /\ dismissed' =
                  (dismissed \/ (showWarning /\ ~loading /\ warningTimeout.armed))
       ELSE UNCHANGED <<timeout, warningTimeout, showWarning, quiet, dismissed>>
    /\ UNCHANGED <<path, hasSession, loading, authPc, authTimeout, signingOut,
                   authEvents, sessionSeen, signedOut>>

Activity ==
    /\ \E e \in ActivityEvents : GuardActivity
    /\ UNCHANGED notGuardVars

\* The button of the modal (lines 152-160): setShowWarning(false) and a
\* mousemove event dispatched on the window; the click is an activity event
\* itself.
GuardStayLoggedIn ==
    /\ Screen = "Warning"
    /\ idle' = 0
    /\ timeout' = ResetTimeout.timeout
    /\ warningTimeout' = ResetTimeout.warningTimeout
    /\ showWarning' = FALSE
    /\ quiet' = 0
    /\ dismissed' = (dismissed \/ warningTimeout.armed)
    /\ UNCHANGED <<path, hasSession, loading, authPc, authTimeout, signingOut,
                   authEvents, sessionSeen, signedOut>>

StayLoggedIn == GuardStayLoggedIn /\ UNCHANGED notGuardVars

\* The inactivity timer fires: startWarning (lines 43-47).
StartWarning ==
    /\ Due(timeout)
    /\ timeout' = Off
    /\ showWarning' = TRUE
    /\ warningTimeout' = SetTimeout(WARNING_TIME)
    /\ UNCHANGED <<path, hasSession, loading, authPc, authTimeout, signingOut,
                   authEvents, sessionSeen, idle, quiet, dismissed, signedOut,
                   notGuardVars>>

\* The logout timer fires: void safeSignOut() (line 46), which calls
\* signOut() and awaits it.
WarningElapsed ==
    /\ Due(warningTimeout)
    /\ warningTimeout' = Off
    /\ signingOut' = signingOut \cup {"idle"}
    /\ UNCHANGED <<path, hasSession, loading, showWarning, timeout, authPc,
                   authTimeout, authEvents, sessionSeen, idle, quiet, dismissed,
                   signedOut, notGuardVars>>

\* signOut() of one safeSignOut call ends: with success, with an error
\* result, or by throwing. The finally block navigates; leaving a wrapped
\* route unmounts the guard, whose cleanup clears the three timers (lines
\* 115-130).
GuardSignOutReturned(cause, result, to) ==
    /\ signingOut' = signingOut \ {cause}
    /\ signedOut' = [cause |-> cause, result |-> result]
    /\ hasSession' = (hasSession /\ result # "ok")
    /\ path' = to
    /\ IF Mounted /\ ~Match(path').wrapped
       THEN /\ timeout' = Off
            /\ warningTimeout' = Off
            /\ authTimeout' = Off
            /\ loading' = TRUE
            /\ showWarning' = FALSE
       ELSE UNCHANGED <<timeout, warningTimeout, authTimeout, loading,
                        showWarning>>
    /\ UNCHANGED <<authPc, authEvents, sessionSeen, idle, quiet, dismissed>>

SignOutReturned ==
    /\ \E cause \in signingOut, result \in SignOutResults :
          GuardSignOutReturned(cause, result, AfterSignOut(result, path))
    /\ UNCHANGED notGuardVars

\* A minute passes. A timer that is due fires before the next minute is
\* over, and so does the 8 s timer of checkAuth.
GuardTick ==
    /\ ~authTimeout.armed
    /\ ~Due(timeout)
    /\ ~Due(warningTimeout)
    /\ timeout' = Elapse(timeout)
    /\ warningTimeout' = Elapse(warningTimeout)
    /\ idle' = Saturate(idle)
    /\ quiet' = Saturate(quiet)
    /\ UNCHANGED <<path, hasSession, loading, showWarning, authPc, authTimeout,
                   signingOut, authEvents, sessionSeen, dismissed, signedOut>>

Tick == GuardTick /\ UNCHANGED notGuardVars

-----------------------------------------------------------------------------
(* The IdleTimer that Layout mounts (unnamed/part_006, unnamed/part_007)   *)
(* beside the guard of a wrapped route.                                    *)

\* <IdleTimer timeout={300000} />, in minutes.
idleTimeout == 5

\* The routes under <Route element={<Layout />}> (App.tsx lines 24-66).
UnderLayout(p) == p \in DOMAIN RouteTable \ {"/login", "/signup"}

\* The events resetTimer listens to (part_006 line 25).
IdleTimerEvents ==
    {"mousemove", "keydown", "mousedown", "touchstart", "click", "wheel", "touchmove"}

\* resetTimer: the timer is cleared and set again.
ResetTimer(t) == SetTimeout(idleTimeout)

\* The app has just been opened at a path: beside the guard, a route under
\* Layout has mounted the IdleTimer, whose effect started the timer.
InitIdleTimer == timerRef = IF UnderLayout(path) THEN ResetTimer(Off) ELSE Off

\* An event reaches the window: the listeners of the guard and of the
\* IdleTimer that listen to it run.
RouteActivity ==
    /\ \E e \in ActivityEvents \cup IdleTimerEvents :
          /\ IF e \in ActivityEvents THEN GuardActivity
             ELSE /\ idle' = 0
                  /\ UNCHANGED <<path, hasSession, loading, showWarning, timeout,
                                 warningTimeout, authPc, authTimeout, signingOut,
                                 authEvents, sessionSeen, quiet, dismissed,
                                 signedOut>>
          /\ timerRef' = IF UnderLayout(path) /\ e \in IdleTimerEvents
                         THEN ResetTimer(timerRef) ELSE timerRef
    /\ UNCHANGED notRouteVars

\* The click on the button of the modal is heard by the IdleTimer too.
RouteStayLoggedIn ==
    /\ GuardStayLoggedIn
    /\ timerRef' = ResetTimer(timerRef)
    /\ UNCHANGED notRouteVars

\* The timer of the IdleTimer fires: its callback calls signOut() and
\* awaits it (part_006 lines 16-20).
IdleTimerFired ==
    /\ Due(timerRef)
    /\ timerRef' = Off
    /\ signingOut' = signingOut \cup {"idle timer"}
    /\ UNCHANGED <<path, hasSession, loading, showWarning, timeout,
                   warningTimeout, authPc, authTimeout, authEvents, sessionSeen,
                   idle, quiet, dismissed, signedOut, notRouteVars>>

\* signOut() ends. The callback of the IdleTimer navigates to /login unless
\* signOut() threw; safeSignOut of the guard navigates in any case. Leaving
\* the routes of Layout unmounts the IdleTimer, whose cleanup clears its
\* timer.
RouteSignOutReturned ==
    /\ \E cause \in signingOut, result \in SignOutResults :
          GuardSignOutReturned(cause, result,
              IF cause = "idle timer"
              THEN (IF result = "throw" THEN path ELSE "/login")
              ELSE AfterSignOut(result, path))
    /\ timerRef' = IF UnderLayout(path') THEN timerRef ELSE Off
    /\ UNCHANGED notRouteVars

\* A minute passes for the timers of the guard and of the IdleTimer.
RouteTick ==
    /\ GuardTick
    /\ ~Due(timerRef)
    /\ timerRef' = Elapse(timerRef)
    /\ UNCHANGED notRouteVars

-----------------------------------------------------------------------------
(* The Dashboard page (src/pages/Dashboard.tsx, lines 43-232): fetchData   *)
(* maps the rows of the contributions and expenses tables, and             *)
(* calculateMonthlyData sums them into twelve buckets.                      *)

\* Bounds of the Dashboard model: rows the two selects return.
MaxRows == 2
MaxExpenses == 1

\* A date or timestamp string of the backend, kept as the digits between
\* the dashes; NullRaw stands for null.
NullRaw == [y |-> <<>>, m |-> <<>>, d |-> <<>>]
RawDate(y, m, d) == [y |-> y, m |-> m, d |-> d]

\* Rows of the contributions table: contribution_month is a stored date
\* (`YYYY-MM-01`), paid_on a timestamp, either may be null; one row carries
\* a month that is not zero-padded, as a text column could hold it.
ContributionRows ==
    {[contribution_month |-> RawDate(<<2,0,2,4>>, <<0,1>>, <<0,1>>),
      paid_on |-> RawDate(<<2,0,2,4>>, <<0,2>>, <<1,0>>), amount |-> 2000],
     [contribution_month |-> RawDate(<<2,0,2,4>>, <<0,1>>, <<0,1>>),
      paid_on |-> NullRaw, amount |-> 500],
     [contribution_month |-> RawDate(<<2,0,2,4>>, <<1,2>>, <<0,1>>),
      paid_on |-> NullRaw, amount |-> 2000],
     [contribution_month |-> RawDate(<<2,0,2,3>>, <<1,2>>, <<0,1>>),
      paid_on |-> NullRaw, amount |-> 500],
     [contribution_month |-> NullRaw,
      paid_on |-> RawDate(<<2,0,2,3>>, <<1,1>>, <<2,0>>), amount |-> 2000],
     [contribution_month |-> NullRaw, paid_on |-> NullRaw, amount |-> 500],
     [contribution_month |-> RawDate(<<2,0,2,4>>, <<3>>, <<5>>),
      paid_on |-> NullRaw, amount |-> 2000],
     [contribution_month |-> RawDate(<<2,0,2,3>>, <<0,1>>, <<0,1>>),
      paid_on |-> NullRaw, amount |-> 0]}

\* Rows of the expenses table: date is a stored date or null.
ExpenseRows ==
    {[date |-> NullRaw, amount |-> 100],
     [date |-> RawDate(<<2,0,2,4>>, <<0,1>>, <<0,1>>), amount |-> 3000],
     [date |-> RawDate(<<2,0,2,4>>, <<0,1>>, <<0,1>>), amount |-> 100],
     [date |-> RawDate(<<2,0,2,4>>, <<1,2>>, <<1,5>>), amount |-> 100],
     [date |-> RawDate(<<2,0,2,3>>, <<0,1>>, <<0,1>>), amount |-> 3000]}

SeqsUpTo(S, n) == UNION {[1 .. k -> S] : k \in 0 .. n}

\* new Date(text) of a string that is not null: a valid date when year,
\* month and day are in range, NaN otherwise.
IsValidDate(raw) ==
    /\ Len(raw.y) = 4
    /\ raw.m # <<>> /\ ToNumber(raw.m) \in 1 .. 12
    /\ raw.d # <<>> /\ ToNumber(raw.d) \in 1 .. 31

\* fetchData's map of one contributions row (lines 139-173).
DashMapRow(d) ==
    LET monthRaw == IF d.contribution_month # NullRaw THEN d.contribution_month
                    ELSE d.paid_on                       \* a ?? b ?? null
        iso == monthRaw # NullRaw /\ IsIsoMonth(monthRaw)
        parsed == monthRaw # NullRaw /\ ~iso /\ IsValidDate(monthRaw)
    IN  [amount |-> OrElse(d.amount, 0),
         month |-> IF iso THEN OrElse(ToNumber(monthRaw.m), Today.month)
                   ELSE IF parsed THEN ToNumber(monthRaw.m)
                   ELSE Today.month,
         year |-> IF iso THEN OrElse(ToNumber(monthRaw.y), Today.year)
                  ELSE IF parsed THEN ToNumber(monthRaw.y)
                  ELSE Today.year,
         paid |-> d.paid_on # NullRaw]

\* fetchData's map of one expenses row (lines 185-194): a date-only string
\* goes through new Date(..).toISOString().split('T')[0] unchanged.
DashMapExpense(r) == [amount |-> r.amount, date |-> r.date]

\* new Date('YYYY-MM-DD') is midnight UTC; getMonth() and getFullYear() read
\* it in local time, which west of UTC is still the day before.
LocalMonthOf(date, west) ==
    LET y == ToNumber(date.y)
        mi == ToNumber(date.m) - 1
    IN  IF west /\ ToNumber(date.d) = 1
        THEN (IF mi = 0 THEN [year |-> y - 1, mon |-> 11]
                        ELSE [year |-> y, mon |-> mi - 1])
        ELSE [year |-> y, mon |-> mi]

\* The value of the year select: 'all', or the digits of a year.
AllYears == [all |-> TRUE, digits |-> <<>>]
OneYear(ds) == [all |-> FALSE, digits |-> ds]
YearFilterOptions == {AllYears, OneYear(<<2,0,2,4>>), OneYear(<<2,0,2,3>>)}

\* yearFilter === 'all' || year === Number(yearFilter)
MatchesYear(yf, year) == yf.all \/ year = ToNumber(yf.digits)

\* if (idx >= 0 && idx < 12)
InBucketRangeFromOne(idx) == idx >= 1 /\ idx < 12
InBucketRange(idx) == idx >= 0 /\ idx < 12

\* Math.max(0, collected - expenses)
NetUnclamped(collected, expenses) == collected - expenses
Net(collected, expenses) ==
    IF collected - expenses > 0 THEN collected - expenses ELSE 0

\* Array.from({ length: 12 }, ...): bucket i + 1 is month index i.
EmptyMonths == [i \in 1 .. 12 |-> [collected |-> 0, expenses |-> 0, net |-> 0]]

\* contributions.forEach (lines 63-70)
RECURSIVE CollectInto(_, _, _)
CollectInto(ms, list, yf) ==
    IF list = <<>> THEN ms
    ELSE LET c == Head(list)
             idx == c.month - 1
             hit == MatchesYear(yf, c.year) /\ InBucketRange(idx)
         IN  CollectInto(IF hit
                         THEN [ms EXCEPT ![idx + 1].collected = @ + c.amount]
                         ELSE ms,
                         Tail(list), yf)

\* expenses.forEach (lines 72-86)
RECURSIVE SpendInto(_, _, _, _)
SpendInto(ms, list, yf, west) ==
    IF list = <<>> THEN ms
    ELSE LET e == Head(list)
             at == LocalMonthOf(e.date, west)
             hit == /\ e.date # NullRaw
                    /\ IsValidDate(e.date)
                    /\ MatchesYear(yf, at.year)
                    /\ InBucketRange(at.mon)
         IN  SpendInto(IF hit
                       THEN [ms EXCEPT ![at.mon + 1].expenses = @ + e.amount]
                       ELSE ms,
                       Tail(list), yf, west)

\* calculateMonthlyData (lines 55-93)
CalculateMonthlyData(cs, es, yf, west) ==
    LET summed == SpendInto(CollectInto(EmptyMonths, cs, yf), es, yf, west)
    IN  [i \in 1 .. 12 |->
            [summed[i] EXCEPT !.net = Net(summed[i].collected, summed[i].expenses)]]

\* The page before its first fetch has answered.
DashIdle ==
    /\ contributionsData = <<>>
    /\ expData = <<>>
    /\ tzWest = FALSE
    /\ dashContributions = <<>>
    /\ expensesData = <<>>
    /\ yearFilter = AllYears
    /\ monthlyData = <<>>

InitDash ==
    /\ contributionsData \in SeqsUpTo(ContributionRows, MaxRows)
    /\ expData \in SeqsUpTo(ExpenseRows, MaxExpenses)
    /\ tzWest \in BOOLEAN
    /\ dashContributions = <<>>
    /\ expensesData = <<>>
    /\ yearFilter = AllYears
    /\ monthlyData = <<>>

\* The effect on [yearFilter, contributions, expensesData] (lines 226-232).
Recalculated(cs, es, yf, old) ==
    IF Len(cs) > 0 \/ Len(es) > 0
    THEN CalculateMonthlyData(cs, es, yf, tzWest)
    ELSE old

\* fetchData (lines 95-211). It returns early when the session or the
\* members select fails and skips the rest when the contributions select
\* fails; when the expenses select fails the expenses are emptied. After
\* it stored the lists the effect computes the buckets again.
DashFetchData ==
    /\ \E outcome \in {"ok", "expError", "returned early"} :
          LET cs == [i \in DOMAIN contributionsData |->
                        DashMapRow(contributionsData[i])]
              es == IF outcome = "ok"
                    THEN [i \in DOMAIN expData |-> DashMapExpense(expData[i])]
                    ELSE <<>>
          IN  IF outcome = "returned early"
              THEN UNCHANGED <<dashContributions, expensesData, monthlyData>>
              ELSE /\ dashContributions' = cs
                   /\ expensesData' = es
                   /\ monthlyData' =
                         Recalculated(cs, es, yearFilter,
                            IF outcome = "ok"
                            THEN CalculateMonthlyData(cs, es, yearFilter, tzWest)
                            ELSE monthlyData)
    /\ UNCHANGED <<contributionsData, expData, tzWest, yearFilter, notDashVars>>

\* The year select (lines 250-258) and the effect it triggers.
SetYearFilter ==
    /\ \E yf \in YearFilterOptions \ {yearFilter} :
          /\ yearFilter' = yf
          /\ monthlyData' =
                Recalculated(dashContributions, expensesData, yf, monthlyData)
    /\ UNCHANGED <<contributionsData, expData, tzWest, dashContributions,
                   expensesData, notDashVars>>

-----------------------------------------------------------------------------
(* The admin gate and the writes behind it: the CSR page (pages/CSR.tsx,   *)
(* first source lines 1-930, second source from line 1000), the Expenses   *)
(* page (pages/Expenses.tsx and unnamed/part_004), the Profile page        *)
(* (pages/Dashboard.tsx lines 361-1143 and 1162-1868) and the password     *)
(* entry of the Contributions page. Each page has two sources, 1 and 2 in  *)
(* the order just given. The gate of the Profile admin panel (adminGate)   *)
(* is rendered only once isAdmin is set and is left out.                   *)

\* Bounds of the CSR page model.
MaxInserts == 2      \* rows inserted into the CSR tables during one visit
MaxCsrEvents == 1    \* change events not yet delivered to the page

ADMIN_PASSWORD == "Admin@123"
Passwords == {"", "Admin@123", "admin@123"}

\* The keys of sessionStorage: CSR keeps 'isAdminValidated' = 'true', the
\* other pages keep 'adminValidated' = '1'.
CsrKey == "isAdminValidated"
AdminKey == "adminValidated"

AdminPages == {"CSR", "Expenses", "Profile", "Contributions"}
NoPage == [name |-> "none", source |-> 0]

\* adminPasswordInput === ADMIN_PASSWORD
PasswordAccepted(input) == input # ""
PasswordMatches(input) == input = ADMIN_PASSWORD

NoCsrCall ==
    [pc |-> "idle", kind |-> "none", project_id |-> 0, attempt |-> 0,
     result |-> "none", data |-> 0]
NoFetch == [pc |-> "none", rows |-> <<>>]

\* A write sent to the backend, with the admin flag of the page at that time.
NoWrite == [op |-> "none", admin |-> TRUE]
Written(op) == [op |-> op, admin |-> isAdmin]

\* Rows in the two CSR tables; the backend numbers them in order.
RECURSIVE CsrRowCount(_)
CsrRowCount(tbl) ==
    IF tbl = <<>> THEN 0
    ELSE 1 + Len(Head(tbl).csr_contributions) + CsrRowCount(Tail(tbl))

AdminIdle ==
    /\ adminPage = NoPage
    /\ sessionFlags = {}
    /\ isAdmin = FALSE
    /\ adminVia = "none"
    /\ adminPasswordInput = ""
    /\ adminSignInOpen = FALSE
    /\ memberRows = [count |-> 1, is_admin |-> FALSE]
    /\ lastWrite = NoWrite
    /\ csrTable = <<>>
    /\ projects = <<>>
    /\ csrCall = NoCsrCall
    /\ csrEvents = 0
    /\ csrFetch = NoFetch

\* A tab of the browser: sessionStorage may hold either flag from an earlier
\* page; the signed-in user has no, one or two member rows, with or without
\* an admin role in the first of them.
InitAdmin ==
    /\ adminPage = NoPage
    /\ sessionFlags \in SUBSET {CsrKey, AdminKey}
    /\ isAdmin = FALSE
    /\ adminVia = "none"
    /\ adminPasswordInput = ""
    /\ adminSignInOpen = FALSE
    /\ memberRows \in [count : 0 .. 2, is_admin : BOOLEAN]
    /\ lastWrite = NoWrite
    /\ csrTable = <<[id |-> 1, csr_contributions |-> <<>>]>>
    /\ projects = <<>>
    /\ csrCall = NoCsrCall
    /\ csrEvents = 0
    /\ csrFetch = NoFetch

\* The admin flag a page finds when it is mounted, and where it comes from.
\* CSR reads its key in the useState initializer; Expenses and Contributions
\* read theirs in the mount effect; Profile sets isAdmin in fetchProfile when
\* the user has a member row, and its second source also takes is_admin,
\* isAdmin or role = 'admin' of that row.
LoadedFlag(p) ==
    LET stored == IF p.name = "CSR" THEN CsrKey \in sessionFlags
                  ELSE AdminKey \in sessionFlags
        dbAdmin == p.name = "Profile" /\ p.source = 2 /\ memberRows.is_admin
    IN  IF p.name = "Profile" /\ memberRows.count = 0 THEN "none"
        ELSE IF stored THEN "storage"
        ELSE IF dbAdmin THEN "db"
        ELSE "none"

\* The router mounts a page; CSR fetches its projects.
OpenPage ==
    /\ adminPage = NoPage
    /\ \E p \in [name : AdminPages, source : 1 .. 2] :
          /\ adminPage' = p
          /\ adminVia' = LoadedFlag(p)
          /\ isAdmin' = (LoadedFlag(p) # "none")
          /\ projects' = IF p.name = "CSR" THEN csrTable ELSE <<>>
    /\ UNCHANGED <<sessionFlags, adminPasswordInput, adminSignInOpen, memberRows,
                   lastWrite, csrTable, csrCall, csrEvents, csrFetch,
                   notAdminVars>>

\* The router unmounts the page: its state is gone, sessionStorage stays.
\* A request that is on its way is still served.
LeavePage ==
    /\ adminPage # NoPage
    /\ csrCall.pc # "insert"
    /\ profileCall.pc = "idle"
    /\ adminPage' = NoPage
    /\ isAdmin' = FALSE
    /\ adminVia' = "none"
    /\ adminPasswordInput' = ""
    /\ adminSignInOpen' = FALSE
    /\ projects' = <<>>
    /\ csrCall' = NoCsrCall
    /\ csrEvents' = 0
    /\ csrFetch' = NoFetch
    /\ UNCHANGED <<sessionFlags, memberRows, lastWrite, csrTable,
                   notAdminVars>>

\* The password field of the CSR sign-in dialog and of the Contributions
\* page.
TypePassword ==
    /\ \/ adminPage.name = "CSR" /\ adminSignInOpen
       \/ adminPage.name = "Contributions" /\ ~isAdmin
    /\ \E pw \in Passwords \ {adminPasswordInput} : adminPasswordInput' = pw
    /\ UNCHANGED <<adminPage, sessionFlags, isAdmin, adminVia, adminSignInOpen,
                   memberRows, lastWrite, csrTable, projects, csrCall,
                   csrEvents, csrFetch, notAdminVars>>

\* CSR: the Sign in button of the dialog (lines 901-911), handleAdminValidation
\* in the second source (lines 1172-1182), which clears the field either way.
AdminSignIn ==
    /\ adminPage.name = "CSR"
    /\ adminSignInOpen
    /\ IF PasswordMatches(adminPasswordInput)
       THEN /\ sessionFlags' = sessionFlags \cup {CsrKey}
            /\ isAdmin' = TRUE
            /\ adminVia' = "password"
            /\ adminSignInOpen' = FALSE
            /\ adminPasswordInput' = ""
       ELSE /\ adminPasswordInput' =
                  IF adminPage.source = 2 THEN "" ELSE adminPasswordInput
            /\ UNCHANGED <<sessionFlags, isAdmin, adminVia, adminSignInOpen>>
    /\ UNCHANGED <<adminPage, memberRows, lastWrite, csrTable, projects,
                   csrCall, csrEvents, csrFetch, notAdminVars>>

\* Contributions: authenticate (Dashboard.tsx lines 1950-1962).
Authenticate ==
    /\ adminPage.name = "Contributions"
    /\ ~isAdmin
    /\ IF PasswordMatches(adminPasswordInput)
       THEN /\ sessionFlags' = sessionFlags \cup {AdminKey}
            /\ isAdmin' = TRUE
            /\ adminVia' = "password"
            /\ adminPasswordInput' = ""
       ELSE UNCHANGED <<sessionFlags, isAdmin, adminVia, adminPasswordInput>>
    /\ UNCHANGED <<adminPage, adminSignInOpen, memberRows, lastWrite, csrTable,
                   projects, csrCall, csrEvents, csrFetch, notAdminVars>>

\* Expenses: the Approve and Reject buttons are rendered for isAdmin only;
\* updateExpenseStatus of Expenses.tsx checks the flag again (line 203), the
\* one of part_004 does not (lines 110-117).
UpdateExpenseStatus ==
    /\ adminPage.name = "Expenses"
    /\ isAdmin
    /\ lastWrite' = Written("update expenses")
    /\ UNCHANGED <<adminPage, sessionFlags, isAdmin, adminVia, adminPasswordInput,
                   adminSignInOpen, memberRows, csrTable, projects, csrCall,
                   csrEvents, csrFetch, notAdminVars>>

\* Profile: deleteDuplicateMembers, consolidateDuplicates and seedMembers
\* (lines 647-716, 1426-1492). The first two return unless isAdmin is set
\* and more than one member row was found, the third unless isAdmin is set.
ProfileAdminWrite ==
    /\ adminPage.name = "Profile"
    /\ \E op \in {"delete members", "consolidate members", "insert members"} :
          lastWrite' =
              IF isAdmin /\ (op = "insert members" \/ memberRows.count > 1)
              THEN Written(op) ELSE lastWrite
    /\ UNCHANGED <<adminPage, sessionFlags, isAdmin, adminVia, adminPasswordInput,
                   adminSignInOpen, memberRows, csrTable, projects, csrCall,
                   csrEvents, csrFetch, notAdminVars>>

\* Profile: createProfileFromAuth (Dashboard.tsx lines 583-645, 1367-1424)
\* inserts the member row; after a foreign-key error it waits and inserts
\* again, at most profileMaxAttempts times in all.
profileMaxAttempts == 6
profileWait == 300

NoProfileCall == [pc |-> "idle", attempts |-> 0, wait |-> 0, error |-> "none",
                  result |-> "none"]

\* window.location.reload(): the page and its state are gone.
Reloaded ==
    /\ adminPage' = NoPage
    /\ isAdmin' = FALSE
    /\ adminVia' = "none"
    /\ adminPasswordInput' = ""
    /\ adminSignInOpen' = FALSE
    /\ projects' = <<>>
    /\ csrCall' = NoCsrCall
    /\ csrEvents' = 0
    /\ csrFetch' = NoFetch

NotReloaded ==
    UNCHANGED <<adminPage, isAdmin, adminVia, adminPasswordInput, adminSignInOpen,
                projects, csrCall, csrEvents, csrFetch>>

\* The Create Profile button of the 'No Profile Found' screen: getUser, the
\* check for an existing row (an exception of the check is only logged),
\* then the first insert.
CreateProfileFromAuth ==
    /\ adminPage.name = "Profile"
    /\ profileCall.pc = "idle"
    /\ \E user \in {"error", "none", "user"}, checked \in BOOLEAN :
          IF user # "user"
          THEN /\ profileCall' = [NoProfileCall EXCEPT !.result =
                     IF user = "error" THEN "Failed to create profile"
                     ELSE "Not authenticated"]
               /\ NotReloaded
          ELSE IF checked /\ memberRows.count > 0
          THEN /\ profileCall' = [NoProfileCall EXCEPT !.result =
                                     "Profile already exists. Reloading..."]
               /\ Reloaded
          ELSE /\ profileCall' = [NoProfileCall EXCEPT !.pc = "insert",
                                     !.attempts = 1, !.wait = profileWait]
               /\ NotReloaded
    /\ UNCHANGED <<sessionFlags, memberRows, lastWrite, csrTable, notProfileVars>>

\* const isFK = /foreign key|profiles_id_fkey|violates foreign key/gi.test(msg)
IsAnyError(answer) == answer # "ok"
IsFK(answer) == answer = "violates foreign key"

\* The insert is answered: the row is stored, or an error comes back; after
\* a foreign-key error the handler waits wait + jitter.
ProfileInsertAnswered ==
    /\ profileCall.pc = "insert"
    /\ \E answer \in {"ok", "violates foreign key", "duplicate key"} :
          /\ answer = "ok" <=> memberRows.count = 0
          /\ IF answer = "ok"
             THEN /\ profileCall' = [NoProfileCall EXCEPT !.result =
                                        "Profile created. Reloading..."]
                  /\ memberRows' = [memberRows EXCEPT !.count = 1]
                  /\ Reloaded
             ELSE IF IsFK(answer)
             THEN /\ profileCall' = [profileCall EXCEPT !.pc = "wait",
                                                        !.error = answer]
                  /\ NotReloaded
                  /\ UNCHANGED memberRows
             ELSE /\ profileCall' = [NoProfileCall EXCEPT !.result = answer,
                                                          !.error = answer]
                  /\ NotReloaded
                  /\ UNCHANGED memberRows
    /\ UNCHANGED <<sessionFlags, lastWrite, csrTable, notProfileVars>>

\* The timer fires: wait *= 2 and the next insert, or the end of the loop.
ProfileRetryWaited ==
    /\ profileCall.pc = "wait"
    /\ profileCall' =
          IF profileCall.attempts < profileMaxAttempts
          THEN [profileCall EXCEPT !.pc = "insert", !.attempts = @ + 1,
                                   !.wait = 2 * @]
          ELSE [NoProfileCall EXCEPT !.result =
                   "Timed out creating profile. Please try again or contact support."]
    /\ UNCHANGED <<adminVars, notProfileVars>>

\* if (!adminValidated) { setAdminSignInOpen(true); return; }
GateOpenForAll(flag) == TRUE
GateOpen(flag) == flag

\* CSR: handleAddProject and handleAddContribution up to the await of the
\* insert (lines 330-360, 448-476; 1184-1207, 1226-1246). An invalid form
\* returns with its errors shown; without the admin flag the sign-in dialog
\* opens; otherwise the insert is sent. The buttons are disabled while a
\* submission runs.
CsrSubmit ==
    /\ adminPage.name = "CSR"
    /\ csrCall.pc = "idle"
    /\ \E kind \in {"project", "contribution"}, valid \in BOOLEAN,
          pid \in {projects[i].id : i \in DOMAIN projects} \cup {0} :
          /\ kind = "project" <=> pid = 0
          /\ IF ~valid
             THEN UNCHANGED <<adminSignInOpen, csrCall, lastWrite>>
             ELSE IF ~GateOpen(isAdmin)
             THEN /\ adminSignInOpen' = TRUE
                  /\ UNCHANGED <<csrCall, lastWrite>>
             ELSE /\ csrCall' = [NoCsrCall EXCEPT !.pc = "insert", !.kind = kind,
                                                  !.project_id = pid, !.attempt = 1]
                  /\ lastWrite' = Written(IF kind = "project" THEN "insert project"
                                           ELSE "insert contribution")
                  /\ UNCHANGED adminSignInOpen
    /\ UNCHANGED <<adminPage, sessionFlags, isAdmin, adminVia, adminPasswordInput,
                   memberRows, csrTable, projects, csrEvents, csrFetch,
                   notAdminVars>>

\* The backend serves the insert: the row is stored and comes back in the
\* response, or an error does; a stored row raises a change event.
CsrServerInsert ==
    /\ csrCall.pc = "insert"
    /\ \E result \in {"ok", "missing column", "error"} :
          LET id == CsrRowCount(csrTable) + 1
              stored == result = "ok" /\ id <= MaxInserts + 1
          IN  /\ result = "ok" => stored
              /\ result = "missing column" => csrCall.kind = "project"
              /\ csrCall' = [csrCall EXCEPT !.pc = "answered", !.result = result,
                                            !.data = IF stored THEN id ELSE 0]
              /\ csrTable' =
                    IF ~stored THEN csrTable
                    ELSE IF csrCall.kind = "project"
                    THEN <<[id |-> id, csr_contributions |-> <<>>]>> \o csrTable
                    ELSE [i \in DOMAIN csrTable |->
                            IF csrTable[i].id = csrCall.project_id
                            THEN [csrTable[i] EXCEPT !.csr_contributions =
                                                        Append(@, id)]
                            ELSE csrTable[i]]
              /\ csrEvents' = IF stored /\ csrEvents < MaxCsrEvents
                              THEN csrEvents + 1 ELSE csrEvents
    /\ UNCHANGED <<adminPage, sessionFlags, isAdmin, adminVia, adminPasswordInput,
                   adminSignInOpen, memberRows, lastWrite, projects, csrFetch,
                   notAdminVars>>

\* setProjects(prev => [newProject, ...prev]) of the first source; the second
\* source leaves the list to the next fetch.
WithProject(src, list, id) ==
    IF src = 1 THEN <<[id |-> id, csr_contributions |-> <<>>]>> \o list ELSE list

\* setProjects(prev => prev.map(...)) of the first source (lines 482-491).
WithContribution(src, list, pid, id) ==
    IF src = 1
    THEN [i \in DOMAIN list |->
            IF list[i].id = pid
            THEN [list[i] EXCEPT !.csr_contributions = Append(@, id)]
            ELSE list[i]]
    ELSE list

\* if (error.message?.includes('column') && ...includes('does not exist'))
RetriesAfterAnyError(src, call) == call.result # "ok"
RetriesWithoutColumns(src, call) ==
    src = 1 /\ call.kind = "project" /\ call.attempt = 1
            /\ call.result = "missing column"

\* CSR: the handler resumes with the response of the insert (lines 362-445,
\* 478-511; 1207-1224, 1246-1265). The first source's handleAddProject sends
\* the insert again without the columns the table lacks when the error says
\* so.
CsrInsertAnswered ==
    /\ csrCall.pc = "answered"
    /\ IF RetriesWithoutColumns(adminPage.source, csrCall)
       THEN /\ csrCall' = [csrCall EXCEPT !.pc = "insert", !.attempt = 2,
                                          !.result = "none"]
            /\ lastWrite' = Written("insert project")
            /\ UNCHANGED projects
       ELSE /\ csrCall' = NoCsrCall
            /\ UNCHANGED lastWrite
            /\ projects' =
                  IF csrCall.result # "ok" THEN projects
                  ELSE IF csrCall.kind = "project"
                  THEN WithProject(adminPage.source, projects, csrCall.data)
                  ELSE WithContribution(adminPage.source, projects,
                                        csrCall.project_id, csrCall.data)
    /\ UNCHANGED <<adminPage, sessionFlags, isAdmin, adminVia, adminPasswordInput,
                   adminSignInOpen, memberRows, csrTable, csrEvents, csrFetch,
                   notAdminVars>>

\* CSR: a postgres_changes event calls fetchProjects / fetchAllProjects; the
\* selects are answered from the tables, or fail.
CsrChangeEvent ==
    /\ adminPage.name = "CSR"
    /\ csrEvents > 0
    /\ csrFetch.pc = "none"
    /\ csrEvents' = csrEvents - 1
    /\ \E ok \in BOOLEAN :
          csrFetch' = [pc |-> "answered", rows |-> IF ok THEN csrTable ELSE <<>>]
    /\ UNCHANGED <<adminPage, sessionFlags, isAdmin, adminVia, adminPasswordInput,
                   adminSignInOpen, memberRows, lastWrite, csrTable, projects,
                   csrCall, notAdminVars>>

\* setProjects(projectsWithContributions), or setProjects([]) after a
\* failure.
CsrFetchStored ==
    /\ csrFetch.pc = "answered"
    /\ projects' = csrFetch.rows
    /\ csrFetch' = NoFetch
    /\ UNCHANGED <<adminPage, sessionFlags, isAdmin, adminVia, adminPasswordInput,
                   adminSignInOpen, memberRows, lastWrite, csrTable, csrCall,
                   csrEvents, notAdminVars>>

-----------------------------------------------------------------------------
(* The CSV export of the Contributions page (pages/Dashboard.tsx lines     *)
(* 2385-2431, unnamed/part_003 lines 513-603). A text is a sequence of     *)
(* characters, each a string; "\r\n" is kept as one of them.               *)

\* Bound of the export model: rows of the contributions list.
MaxCsvRows == 2

DigitChars == <<"0", "1", "2", "3", "4", "5", "6", "7", "8", "9">>

\* String(n) of a natural number.
Str(n) == [i \in DOMAIN ToDigits(n) |-> DigitChars[ToDigits(n)[i] + 1]]

\* Number(text): the number a string of digits stands for, -1 for NaN.
Num(text) ==
    IF text # <<>> /\ \A i \in DOMAIN text : \E d \in 1 .. 10 : DigitChars[d] = text[i]
    THEN ToNumber([i \in DOMAIN text |->
                      (CHOOSE d \in 1 .. 10 : DigitChars[d] = text[i]) - 1])
    ELSE -1

\* n.toLocaleString(): the digits in groups of three.
RECURSIVE Grouped(_)
Grouped(ds) ==
    IF Len(ds) <= 3 THEN ds
    ELSE Grouped(SubSeq(ds, 1, Len(ds) - 3)) \o <<",">>
            \o SubSeq(ds, Len(ds) - 2, Len(ds))
ToLocaleString(n) == Grouped(Str(n))

\* text.toLowerCase() and text.includes(sub)
ToLowerCase(text) == [i \in DOMAIN text |-> IF text[i] = "A" THEN "a" ELSE text[i]]
Includes(text, sub) ==
    \E i \in 0 .. (Len(text) - Len(sub)) : SubSeq(text, i + 1, i + Len(sub)) = sub

RECURSIVE Join(_, _)
Join(parts, sep) ==
    IF parts = <<>> THEN <<>>
    ELSE IF Len(parts) = 1 THEN parts[1]
    ELSE parts[1] \o sep \o Join(Tail(parts), sep)

\* Papa.unparse: a field is quoted when it holds the delimiter, a quote or a
\* line break, or starts or ends with a space; quotes inside are doubled.
NeedsQuotes(f) ==
    \/ \E i \in DOMAIN f : f[i] \in {",", "\"", "\n", "\r", "\r\n"}
    \/ f # <<>> /\ (f[1] = " " \/ f[Len(f)] = " ")

RECURSIVE EscapeQuotes(_)
EscapeQuotes(f) ==
    IF f = <<>> THEN <<>>
    ELSE (IF Head(f) = "\"" THEN <<"\"", "\"">> ELSE <<Head(f)>>)
            \o EscapeQuotes(Tail(f))

UnparseFieldBare(f) == f
UnparseField(f) ==
    IF NeedsQuotes(f) THEN <<"\"">> \o EscapeQuotes(f) \o <<"\"">> ELSE f

UnparseRow(r) == Join([i \in DOMAIN r |-> UnparseField(r[i])], <<",">>)

\* Papa.unparse(array of objects): the keys of the first object as header
\* line, one line per object, lines joined by "\r\n"; '' for an empty array.
Unparse(header, rows) ==
    IF rows = <<>> THEN <<>>
    ELSE Join(<<UnparseRow(header)>> \o [i \in DOMAIN rows |-> UnparseRow(rows[i])],
              <<"\r\n">>)

\* The least position from s on where a character of S stands, one past the
\* end when there is none.
NextOf(text, s, S) ==
    IF \E j \in s .. Len(text) : text[j] \in S
    THEN CHOOSE j \in s .. Len(text) :
            text[j] \in S /\ \A k \in s .. (j - 1) : text[k] \notin S
    ELSE Len(text) + 1

\* The quote that closes the quoted field opened at s: the first one after
\* an even number of quotes that no quote follows.
ClosingQuote(text, s) ==
    LET closes(j) ==
            /\ text[j] = "\""
            /\ Cardinality({k \in (s + 1) .. j : text[k] = "\""}) % 2 = 1
            /\ (j = Len(text) \/ text[j + 1] # "\"")
    IN  IF \E j \in (s + 1) .. Len(text) : closes(j)
        THEN CHOOSE j \in (s + 1) .. Len(text) :
                closes(j) /\ \A k \in (s + 1) .. (j - 1) : ~closes(k)
        ELSE Len(text) + 1

\* The inside of a quoted field with each doubled quote read as one.
Unescape(f) ==
    LET kept == {k \in DOMAIN f :
                    f[k] # "\""
                       \/ Cardinality({j \in 1 .. k : f[j] = "\""}) % 2 = 0}
    IN  [i \in 1 .. Cardinality(kept) |->
            f[CHOOSE k \in kept : Cardinality({j \in kept : j <= k}) = i]]

\* Papa.parse: the lines of a text as lists of fields, read field by field
\* from position s; a quote opens a quoted field only at its start.
RECURSIVE ParseFrom(_, _, _, _)
ParseFrom(text, s, row, rows) ==
    LET quoted == s <= Len(text) /\ text[s] = "\""
        close == ClosingQuote(text, s)
        stop == NextOf(text, IF quoted THEN close + 1 ELSE s, {",", "\r\n", "\n"})
        field == IF quoted THEN Unescape(SubSeq(text, s + 1, close - 1))
                 ELSE SubSeq(text, s, stop - 1)
    IN  IF stop > Len(text) THEN Append(rows, Append(row, field))
        ELSE IF text[stop] = ","
        THEN ParseFrom(text, stop + 1, Append(row, field), rows)
        ELSE ParseFrom(text, stop + 1, <<>>, Append(rows, Append(row, field)))

\* Papa.parse(text, { header: true }): the first line names the columns, the
\* others are the data rows.
Parse(text) ==
    LET lines == IF text = <<>> THEN <<>> ELSE ParseFrom(text, 1, <<>>, <<>>)
    IN  IF lines = <<>> THEN [fields |-> <<>>, data |-> <<>>]
        ELSE [fields |-> Head(lines), data |-> Tail(lines)]

\* The rows the contributions list may hold and the members table.
CsvMembers ==
    <<[id |-> "m1", name |-> <<"A", "b">>], [id |-> "m2", name |-> <<"a", ",", "b">>]>>
CsvRow(id, name, y, m, amt, paid) ==
    [member_id |-> id, full_name |-> name, year |-> y, month |-> m,
     amount |-> amt, paid |-> paid]
CsvRows ==
    {CsvRow("m1", <<"A", "b">>, 2024, 1, 2000, TRUE),
     CsvRow("m1", <<"A", "b">>, 2024, 12, 500, FALSE),
     CsvRow("m2", <<"a", ",", "b">>, 2024, 12, 2000, TRUE),
     CsvRow("m3", <<"\"", "a">>, 2023, 12, 500, TRUE),
     CsvRow("m4", <<"a", "\n">>, 2024, 12, 2000, FALSE),
     CsvRow("m5", <<>>, 2024, 1, 500, TRUE)}

\* The filter fields of the page: search text, status, year.
NoFilter == [search |-> <<>>, statusFilter |-> "all", yearFilter |-> AllYears]
Filters ==
    [search : {<<>>, <<"A">>}, statusFilter : {"all", "paid", "unpaid"},
     yearFilter : {AllYears, OneYear(<<2,0,2,4>>)}]

\* const filtered = contributions.filter(...) (Dashboard.tsx lines 2385-2393;
\* the month filter stays at 'all').
Filtered(list, f) ==
    SelectSeq(list, LAMBDA c :
        /\ Includes(ToLowerCase(c.full_name), ToLowerCase(f.search))
        /\ (f.statusFilter = "all"
               \/ (IF f.statusFilter = "paid" THEN c.paid ELSE ~c.paid))
        /\ MatchesYear(f.yearFilter, c.year))

\* Days from 1 January of year 0 to a date, and calculateFine (lines
\* 2395-2409): 200 for each day after the 10th of the contribution's month,
\* nothing for a paid or a future contribution.
DaysTo(y, m, d) ==
    LET before == <<0, 31, 59, 90, 120, 151, 181, 212, 243, 273, 304, 334>>
        leap == (y % 4 = 0 /\ y % 100 # 0) \/ y % 400 = 0
    IN  365 * y + ((y + 3) \div 4) - ((y + 99) \div 100) + ((y + 399) \div 400)
           + before[m] + (IF leap /\ m > 2 THEN 1 ELSE 0) + d
CalculateFine(c, today) ==
    LET now == DaysTo(today.year, today.month, today.day)
        late == now - DaysTo(c.year, c.month, 10)
    IN  IF c.paid \/ now < DaysTo(c.year, c.month, 1) THEN 0
        ELSE IF late > 0 THEN late * 200 ELSE 0

CsvToday == [year |-> Today.year, month |-> Today.month, day |-> 15]

\* exportCSV of Dashboard.tsx (lines 2411-2431): one object per filtered row.
ExportHeader ==
    <<<<"Name">>, <<"Month">>, <<"Year">>, <<"Amount (KSh)">>, <<"Paid">>, <<"Fine">>>>
ExportRows(list) ==
    [i \in DOMAIN list |->
        <<IF list[i].full_name = <<>> THEN <<"Unknown">> ELSE list[i].full_name,
          Str(list[i].month), Str(list[i].year), Str(list[i].amount),
          IF list[i].paid THEN <<"Yes">> ELSE <<"No">>,
          Str(CalculateFine(list[i], CsvToday))>>]

\* part_003: pivotedContributions (lines 523-565) and monthYears (567-576).
\* One group per member of the members table, then one per other member_id
\* in the order the filtered rows bring them; a group keeps the last row of
\* each month and the sum of its paid amounts; a group stays when it has a
\* row or its name includes the search text.
MonthKey(c) == c.year * 100 + c.month
RECURSIVE SortedKeys(_)
SortedKeys(S) ==
    IF S = {} THEN <<>>
    ELSE LET k == CHOOSE x \in S : \A y \in S : x <= y
         IN  <<k>> \o SortedKeys(S \ {k})
MonthYears(list) == SortedKeys({MonthKey(list[i]) : i \in DOMAIN list})

RECURSIVE OtherMembers(_, _)
OtherMembers(list, known) ==
    IF list = <<>> THEN <<>>
    ELSE IF Head(list).member_id \in known THEN OtherMembers(Tail(list), known)
    ELSE <<[id |-> Head(list).member_id, name |-> Head(list).full_name]>>
           \o OtherMembers(Tail(list), known \cup {Head(list).member_id})

RECURSIVE PaidTotal(_)
PaidTotal(list) ==
    IF list = <<>> THEN 0
    ELSE (IF Head(list).paid THEN Head(list).amount ELSE 0) + PaidTotal(Tail(list))

PivotedContributions(list, members, search) ==
    LET all == members \o OtherMembers(list, {members[i].id : i \in DOMAIN members})
        rowsOf(m) == SelectSeq(list, LAMBDA c : c.member_id = m.id)
        groups == [i \in DOMAIN all |->
                      [member |-> all[i], rows |-> rowsOf(all[i]),
                       total |-> PaidTotal(rowsOf(all[i]))]]
    IN  SelectSeq(groups, LAMBDA g :
            g.rows # <<>>
               \/ Includes(ToLowerCase(g.member.name), ToLowerCase(search)))

\* exportCSV of part_003 (lines 578-603): one object per group, one column
\* per month of the filtered rows, and the total.
PivotCell(g, key) ==
    LET hits == SelectSeq(g.rows, LAMBDA c : MonthKey(c) = key)
    IN  IF hits = <<>> THEN <<"-">>
        ELSE IF hits[Len(hits)].paid
        THEN <<"KSh ">> \o ToLocaleString(hits[Len(hits)].amount)
        ELSE <<"Unpaid">>
MonthNames ==
    <<"Jan", "Feb", "Mar", "Apr", "May", "Jun", "Jul", "Aug", "Sep", "Oct", "Nov", "Dec">>
PivotHeader(list) ==
    <<<<"Name">>>>
        \o [i \in DOMAIN MonthYears(list) |->
               <<MonthNames[MonthYears(list)[i] % 100], " ">>
                  \o Str(MonthYears(list)[i] \div 100)]
        \o <<<<"Total">>>>
PivotRows(list, members, search) ==
    LET groups == PivotedContributions(list, members, search)
    IN  [i \in DOMAIN groups |->
            <<groups[i].member.name>>
               \o [k \in DOMAIN MonthYears(list) |->
                      PivotCell(groups[i], MonthYears(list)[k])]
               \o <<<<"KSh ">> \o ToLocaleString(groups[i].total)>>]

\* The text exportCSV hands to the download.
ExportCSV(src, list, f) ==
    IF src = "Dashboard"
    THEN Unparse(ExportHeader, ExportRows(Filtered(list, f)))
    ELSE Unparse(PivotHeader(Filtered(list, f)),
                 PivotRows(Filtered(list, f), CsvMembers, f.search))

NoCsv == [fields |-> <<>>, data |-> <<>>]

CsvIdle ==
    /\ csvView = [source |-> "Dashboard", contributions |-> <<>>, filter |-> NoFilter]
    /\ csvText = <<>>
    /\ csvData = [done |-> FALSE, csv |-> NoCsv]

InitCsv ==
    /\ csvView \in [source : Variants,
                    contributions : SeqsUpTo(CsvRows, MaxCsvRows),
                    filter : {NoFilter}]
    /\ csvText = <<>>
    /\ csvData = [done |-> FALSE, csv |-> NoCsv]

\* The search box and the status and year selects.
SetFilter ==
    /\ \E f \in Filters \ {csvView.filter} : csvView' = [csvView EXCEPT !.filter = f]
    /\ csvText' = <<>>
    /\ csvData' = [done |-> FALSE, csv |-> NoCsv]
    /\ UNCHANGED notCsvVars

\* The Export CSV button.
ClickExportCSV ==
    /\ ~csvData.done
    /\ csvText' = ExportCSV(csvView.source, csvView.contributions, csvView.filter)
    /\ csvData' = [done |-> TRUE, csv |-> NoCsv]
    /\ UNCHANGED <<csvView, notCsvVars>>

\* The exported file is read back with Papa.parse(text, { header: true }),
\* as the bulk upload of the page reads a CSV (line 2303).
ParseExport ==
    /\ csvData.done
    /\ csvData.csv = NoCsv
    /\ csvText # <<>>
    /\ csvData' = [csvData EXCEPT !.csv = Parse(csvText)]
    /\ UNCHANGED <<csvView, csvText, notCsvVars>>

-----------------------------------------------------------------------------
(* Sign-up, password reset and forgot-password (pages/Signup.tsx,          *)
(* unnamed/part_000, ResetPassword in pages/NotFound.tsx, pages/Login.tsx).*)
(* The fields are texts of characters; the messages are written without    *)
(* their pictographs.                                                      *)

\* pollForProfile(maxAttempts = 10) of Signup.tsx, pollForProfile(8) of
\* part_000; the first delays; the bound of the jitter; the wait after a
\* query that threw in Signup.tsx.
maxAttempts == 10
maxAttemptsPart000 == 8
baseDelay == 500
wait == 300
jitterBelow == 200
catchDelay == 1000

MaxAttempts(page) == IF page = "Signup" THEN maxAttempts ELSE maxAttemptsPart000

\* Math.random() * 200, floored in part_000: some of its values.
Jitters == {0, jitterBelow \div 2, jitterBelow - 1}

RECURSIVE Pow2(_)
Pow2(n) == IF n = 0 THEN 1 ELSE 2 * Pow2(n - 1)

AuthPages == {"Signup", "part_000", "ResetPassword", "Login"}

Digits == {DigitChars[d] : d \in 1 .. 10}

\* text.trim()
RECURSIVE Trim(_)
Trim(text) ==
    IF text = <<>> THEN text
    ELSE IF Head(text) = " " THEN Trim(Tail(text))
    ELSE IF text[Len(text)] = " " THEN Trim(SubSeq(text, 1, Len(text) - 1))
    ELSE text

\* phone.replace(/\s/g, '')
NoSpaces(text) == SelectSeq(text, LAMBDA ch : ch # " ")

\* /^(\+254|0)[17]\d{8}$/.test(text)
PhoneAnyLead(text, lead) ==
    /\ Len(text) = Len(lead) + 9
    /\ SubSeq(text, 1, Len(lead)) = lead
    /\ \A i \in (Len(lead) + 2) .. Len(text) : text[i] \in Digits
PhoneWithLead(text, lead) ==
    /\ Len(text) = Len(lead) + 9
    /\ SubSeq(text, 1, Len(lead)) = lead
    /\ text[Len(lead) + 1] \in {"1", "7"}
    /\ \A i \in (Len(lead) + 2) .. Len(text) : text[i] \in Digits
PhoneTest(text) ==
    PhoneWithLead(text, <<"+", "2", "5", "4">>) \/ PhoneWithLead(text, <<"0">>)

\* The first failing check of handleSignup, "none" when all pass (Signup.tsx
\* lines 20-35, part_000 lines 18-38: the email needs '@' and, in
\* Signup.tsx only, '.').
ValidationError(page, f) ==
    IF f.fullName = <<>> \/ Len(Trim(f.fullName)) < 2
    THEN "Full name must be at least 2 characters."
    ELSE IF ~PhoneTest(NoSpaces(f.phone))
    THEN "Please enter a valid Kenyan phone number (07XXXXXXXX or +2547XXXXXXXX)."
    ELSE IF ~Includes(f.email, <<"@">>)
            \/ (page = "Signup" /\ ~Includes(f.email, <<".">>))
    THEN "Please enter a valid email address."
    ELSE IF Len(f.password) < 6
    THEN "Password must be at least 6 characters."
    ELSE "none"

\* What the fields may hold.
FullNames == {<<>>, <<" ", "a", " ">>, <<"a", "b">>}
Phones ==
    {<<"0", "7", "1", "2", "3", "4", "5", "6", "7", "8">>,
     <<"0", "1", " ", "1", "2", "3", "4", "5", "6", "7", "8">>,
     <<"+", "2", "5", "4", "7", "1", "2", "3", "4", "5", "6", "7", "8">>,
     <<"0", "8", "1", "2", "3", "4", "5", "6", "7", "8">>,
     <<"0", "7", "1", "2", "3", "4", "5", "6", "7">>}
Emails == {<<>>, <<"a", "b", ".", "c">>, <<"a", "@", "b">>, <<"a", "@", "b", ".", "c">>}
PasswordTexts == {<<"1", "2", "3", "4", "5">>, <<"1", "2", "3", "4", "5", "6">>}
AuthFields ==
    [fullName |-> FullNames, phone |-> Phones, email |-> Emails,
     password |-> PasswordTexts, confirmPassword |-> PasswordTexts]
EmptyAuthForm ==
    [fullName |-> <<>>, phone |-> <<>>, email |-> <<>>, password |-> <<>>,
     confirmPassword |-> <<>>]

NoPoll == [attempt |-> 0, base |-> 0, delay |-> 0, threw |-> FALSE]

AuthIdle ==
    /\ suPage = "Login"
    /\ suForm = EmptyAuthForm
    /\ suError = "none"
    /\ suMessage = "none"
    /\ suLoading = FALSE
    /\ suCall = "idle"
    /\ poll = NoPoll
    /\ pollResult = "none"

\* A page with its useState values.
InitAuth ==
    /\ suPage \in AuthPages
    /\ suForm = EmptyAuthForm
    /\ suError = "none"
    /\ suMessage = "none"
    /\ suLoading = FALSE
    /\ suCall = "idle"
    /\ poll = NoPoll
    /\ pollResult = "none"

\* onChange of one of the inputs.
TypeAuthForm ==
    /\ suCall = "idle"
    /\ \E field \in DOMAIN AuthFields : \E text \in AuthFields[field] \ {suForm[field]} :
          suForm' = [suForm EXCEPT ![field] = text]
    /\ UNCHANGED <<suPage, suError, suMessage, suLoading, suCall, poll, pollResult,
                   notAuthVars>>

\* handleSignup up to its first await.
HandleSignup ==
    /\ suPage \in {"Signup", "part_000"}
    /\ suCall = "idle"
    /\ ~suLoading
    /\ LET err == ValidationError(suPage, suForm)
       IN  /\ suError' = IF err # "none" \/ suPage = "Signup" THEN err ELSE "none"
           /\ suLoading' = (err = "none")
           /\ suCall' = IF err = "none" THEN "signUp" ELSE "idle"
    /\ poll' = NoPoll
    /\ pollResult' = "none"
    /\ UNCHANGED <<suPage, suForm, suMessage, notAuthVars>>

\* The first delay of the poll.
FirstBase(page) == IF page = "Signup" THEN baseDelay ELSE wait

\* supabase.auth.signUp answers: an error, no user, or the user; with the
\* user the poll starts with its first query.
SignUpAnswered ==
    /\ suCall = "signUp"
    /\ \E answer \in {"User already registered", "Signup failed", "no user", "user"} :
          IF answer = "user"
          THEN /\ suCall' = "query"
               /\ poll' = [attempt |-> 1, base |-> FirstBase(suPage), delay |-> 0,
                           threw |-> FALSE]
               /\ UNCHANGED <<suError, suLoading>>
          ELSE /\ suCall' = "idle"
               /\ poll' = NoPoll
               /\ IF suPage = "Signup"
                  THEN /\ suLoading' = FALSE
                       /\ suError' =
                             IF answer = "User already registered"
                             THEN "An account with this email already exists. Please try logging in."
                             ELSE IF answer = "no user"
                             THEN "No user data returned from signup. Please try again."
                             ELSE answer
                  ELSE IF answer = "no user"
                  THEN UNCHANGED <<suError, suLoading>>
                  ELSE suLoading' = FALSE /\ suError' = answer
    /\ UNCHANGED <<suPage, suForm, suMessage, pollResult, notAuthVars>>

\* The end of handleSignup after pollForProfile returned: Signup.tsx alerts
\* the success and navigates to /login whatever the result (lines 100-107),
\* part_000 does so for a success and sets the error otherwise (93-99).
AfterPoll(result) ==
    /\ pollResult' = result
    /\ suCall' = "idle"
    /\ suLoading' = FALSE
    /\ IF suPage = "Signup"
       THEN /\ suMessage' = "Account created successfully! Please check your email for verification."
            /\ suPage' = "Login"
            /\ UNCHANGED suError
       ELSE IF result = "found"
       THEN /\ suMessage' = "Account created! Please check your email for confirmation."
            /\ suPage' = "Login"
            /\ UNCHANGED suError
       ELSE /\ suError' = "Failed to create profile: Timed out waiting for server-created profile. You can create a profile from the Profile page after signing in."
            /\ UNCHANGED <<suMessage, suPage>>

\* The delay after a query that found nothing: the base and a jitter.
DelayFlat(base, jitter) == catchDelay
DelayOf(base, jitter) == base + jitter

\* The delay after a query that threw: 1000 ms in Signup.tsx (line 90),
\* the base in part_000 (line 84).
CatchDelayOf(page, base) == IF page = "Signup" THEN catchDelay ELSE base

\* One query of pollForProfile answers: the row, no row, or an exception.
PollQuery ==
    /\ suCall = "query"
    /\ \E answer \in {"found", "missing", "threw"}, jitter \in Jitters :
          IF answer = "found"
          THEN /\ AfterPoll("found")
               /\ UNCHANGED poll
          ELSE /\ suCall' = "wait"
               /\ poll' = [poll EXCEPT
                     !.delay = IF answer = "threw" THEN CatchDelayOf(suPage, poll.base)
                               ELSE DelayOf(poll.base, jitter),
                     !.threw = (answer = "threw")]
               /\ UNCHANGED <<suPage, suError, suMessage, suLoading, pollResult>>
    /\ UNCHANGED <<suForm, notAuthVars>>

\* The loop goes on while attempts are left.
AttemptsLeft(page, attempt) == attempt < MaxAttempts(page)

\* The timer of the delay fires: the next attempt with the doubled base, or
\* the end of the loop.
PollWaited ==
    /\ suCall = "wait"
    /\ IF AttemptsLeft(suPage, poll.attempt)
       THEN /\ suCall' = "query"
            /\ poll' = [poll EXCEPT !.attempt = @ + 1, !.base = 2 * @]
            /\ UNCHANGED <<suPage, suError, suMessage, suLoading, pollResult>>
       ELSE /\ AfterPoll("timeout")
            /\ UNCHANGED poll
    /\ UNCHANGED <<suForm, notAuthVars>>

\* handleResetPassword up to its await (NotFound.tsx lines 39-51).
HandleResetPassword ==
    /\ suPage = "ResetPassword"
    /\ suCall = "idle"
    /\ suMessage' = "none"
    /\ IF suForm.password # suForm.confirmPassword
       THEN suError' = "Passwords do not match." /\ UNCHANGED <<suCall, suLoading>>
       ELSE suError' = "none" /\ suCall' = "updateUser" /\ suLoading' = TRUE
    /\ UNCHANGED <<suPage, suForm, poll, pollResult, notAuthVars>>

\* handleForgotPassword up to its await (Login.tsx lines 35-45).
HandleForgotPassword ==
    /\ suPage = "Login"
    /\ suCall = "idle"
    /\ suMessage' = "none"
    /\ IF suForm.email = <<>>
       THEN suError' = "Please enter your email first." /\ UNCHANGED suCall
       ELSE suError' = "none" /\ suCall' = "resetPasswordForEmail"
    /\ UNCHANGED <<suPage, suForm, suLoading, poll, pollResult, notAuthVars>>

\* supabase.auth.updateUser or resetPasswordForEmail answers.
AuthCallAnswered ==
    /\ suCall \in {"updateUser", "resetPasswordForEmail"}
    /\ suCall' = "idle"
    /\ suLoading' = FALSE
    /\ \E failed \in BOOLEAN :
          IF failed THEN suError' = "request failed" /\ UNCHANGED suMessage
          ELSE /\ UNCHANGED suError
               /\ suMessage' = IF suCall = "updateUser"
                               THEN "Password updated successfully! Redirecting to login..."
                               ELSE "Password reset link sent! Check your email."
    /\ UNCHANGED <<suPage, suForm, poll, pollResult, notAuthVars>>

-----------------------------------------------------------------------------
(* The change-notification channels of the pages: what each page fetches,  *)
(* the channel its effect subscribes and what its cleanup removes.         *)

MaxMounts == 3

\* The page components with a subscription effect.
RtPages == {"Dashboard", "Contributions", "Expenses", "CSR"}

ChangeKinds == {"INSERT", "UPDATE", "DELETE"}

\* The tables of the backend the pages read.
Tables ==
    {"members", "contributions", "expenses", "projects", "csr_projects",
     "csr_contributions"}

\* The tables the fetch of a page selects from, joins included.
FetchedTables(p) ==
    CASE p = "Dashboard" -> {"members", "contributions", "expenses", "csr_projects"}
      [] p = "Contributions" -> {"contributions", "members", "projects", "csr_projects"}
      [] p = "Expenses" -> {"expenses", "members", "csr_projects"}
      [] p = "CSR" -> {"csr_projects", "csr_contributions", "members"}

\* channel.on('postgres_changes', { event, table }, ...) of each page: the
\* tables and events its channels listen to.
Listened(p) ==
    CASE p = "Dashboard" -> {"expenses"} \X ChangeKinds
      [] p = "Contributions" -> {"contributions", "members", "projects"} \X ChangeKinds
      [] p = "Expenses" -> {"expenses"} \X ChangeKinds
      [] p = "CSR" -> {"csr_projects", "csr_contributions"} \X ChangeKinds

\* A channel of one mount of a page.
Channel(p, n) == [page |-> p, mount |-> n, on |-> Listened(p)]

\* The cleanup the effect returns. The effect of Expenses returns nothing:
\* its removeChannel is the return value of the async initialize.
Removed(p, n) == IF p = "Expenses" THEN {} ELSE {Channel(p, n)}

NoMount == [page |-> "none", mount |-> 0]
NoEvent == [table |-> "none", kind |-> "none", fetched |-> {}, shown |-> NoMount]

RtIdle ==
    /\ rtPage = NoMount
    /\ mountNo = 0
    /\ rtInit = {}
    /\ channels = {}
    /\ lastEvent = NoEvent

InitRt == RtIdle

\* The router mounts a page: its effect runs. Dashboard, Contributions and
\* CSR subscribe in the effect; Expenses starts initialize, which subscribes
\* after its awaits and only if the expenses table answered.
MountPage ==
    /\ rtPage = NoMount
    /\ mountNo < MaxMounts
    /\ \E p \in RtPages :
        /\ rtPage' = [page |-> p, mount |-> mountNo + 1]
        /\ IF p = "Expenses"
           THEN /\ \E tableExists \in BOOLEAN :
                    rtInit' = rtInit \cup {[mount |-> mountNo + 1,
                                            tableExists |-> tableExists]}
                /\ UNCHANGED channels
           ELSE /\ channels' = channels \cup {Channel(p, mountNo + 1)}
                /\ UNCHANGED rtInit
    /\ mountNo' = mountNo + 1
    /\ UNCHANGED <<lastEvent, notRtVars>>

\* The awaits of Expenses.initialize are over (lines 348-356): it subscribes
\* when testExpensesTable returned true, whether or not the page is still
\* mounted.
ExpensesInitialized ==
    /\ \E i \in rtInit :
        /\ rtInit' = rtInit \ {i}
        /\ channels' = IF i.tableExists
                       THEN channels \cup {Channel("Expenses", i.mount)}
                       ELSE channels
    /\ UNCHANGED <<rtPage, mountNo, lastEvent, notRtVars>>

\* The router unmounts the page: the cleanup of its effect runs.
UnmountPage ==
    /\ rtPage # NoMount
    /\ channels' = channels \ Removed(rtPage.page, rtPage.mount)
    /\ rtPage' = NoMount
    /\ UNCHANGED <<mountNo, rtInit, lastEvent, notRtVars>>

\* A row of a table is inserted, updated or deleted: the callback of every
\* channel that listens to it calls the fetch of its page.
TableChanged ==
    /\ \E tb \in Tables, k \in ChangeKinds :
        lastEvent' = [table |-> tb, kind |-> k,
                      fetched |-> {[page |-> c.page, mount |-> c.mount] :
                                     c \in {d \in channels : <<tb, k>> \in d.on}},
                      shown |-> rtPage]
    /\ UNCHANGED <<rtPage, mountNo, rtInit, channels, notRtVars>>

-----------------------------------------------------------------------------
(* Profile: the duplicate member rows of the signed-in user and the two    *)
(* handlers that remove them (Dashboard.tsx, both copies of Profile).      *)

MaxMembers == 3

\* supabase.auth.getUser(): the id of the signed-in user.
UserId == "u1"

\* Rows the members table may hold: several for the user's id, one of
\* another member.
MemberRowChoices ==
    {[id |-> UserId, name |-> n] : n \in {"Ann", "Bea", "Cat"}}
        \cup {[id |-> "u2", name |-> "Dan"]}

\* .eq('id', id): the rows with that id, in table order.
RowsWithId(tbl, id) == SelectSeq(tbl, LAMBDA r : r.id = id)

\* .delete().in('id', ids): every row whose id is listed is removed.
DeleteIn(tbl, ids) == SelectSeq(tbl, LAMBDA r : r.id \notin ids)

\* list.slice(1).map(r => r.id) and list.filter(...).map(r => r.id), as the
\* set .in() tests against.
IdsOf(list) == {list[i].id : i \in DOMAIN list}

NoDedupCall == [pc |-> "idle", op |-> "none", ids |-> {}, keep |-> "null", list |-> <<>>]
NotDone == [op |-> "none", result |-> "none", keep |-> "null", list |-> <<>>]

DedupIdle ==
    /\ membersTable = <<>>
    /\ profileIsAdmin = FALSE
    /\ duplicateMembers = <<>>
    /\ selectedKeepId = "null"
    /\ dedupCall = NoDedupCall
    /\ dedupDone = NotDone

\* Profile mounts: fetchProfile is awaiting the member rows.
InitDedup ==
    /\ membersTable \in UNION {[1 .. n -> MemberRowChoices] : n \in 0 .. MaxMembers}
    /\ profileIsAdmin \in BOOLEAN
    /\ duplicateMembers = <<>>
    /\ selectedKeepId = "null"
    /\ dedupCall = [NoDedupCall EXCEPT !.pc = "fetch"]
    /\ dedupDone = NotDone

\* fetchProfile got the rows with the user's id: more than one are kept as
\* duplicateMembers.
FetchProfileAnswered ==
    /\ dedupCall.pc = "fetch"
    /\ LET rows == RowsWithId(membersTable, UserId)
       IN duplicateMembers' = IF Len(rows) > 1 THEN rows ELSE duplicateMembers
    /\ dedupCall' = NoDedupCall
    /\ UNCHANGED <<membersTable, profileIsAdmin, selectedKeepId, dedupDone,
                   notDedupVars>>

\* The radio button of a listed row: setSelectedKeepId(d.id).
SelectKeep ==
    /\ dedupCall.pc = "idle"
    /\ \E i \in DOMAIN duplicateMembers :
        selectedKeepId' = duplicateMembers[i].id
    /\ UNCHANGED <<membersTable, profileIsAdmin, duplicateMembers, dedupCall,
                   dedupDone, notDedupVars>>

\* deleteDuplicateMembers up to its await.
DeleteDuplicateMembers ==
    /\ dedupCall.pc = "idle"
    /\ profileIsAdmin /\ Len(duplicateMembers) > 1
    /\ dedupCall' = [pc |-> "delete", op |-> "delete",
                     ids |-> IdsOf(Tail(duplicateMembers)),
                     keep |-> duplicateMembers[1].id,
                     list |-> duplicateMembers]
    /\ dedupDone' = NotDone
    /\ UNCHANGED <<membersTable, profileIsAdmin, duplicateMembers, selectedKeepId,
                   notDedupVars>>

\* consolidateDuplicates(selectedKeepId || undefined) up to its await.
ConsolidateDuplicates ==
    /\ dedupCall.pc = "idle"
    /\ profileIsAdmin /\ Len(duplicateMembers) > 1
    /\ LET keep == IF selectedKeepId # "null" THEN selectedKeepId
                   ELSE duplicateMembers[1].id
       IN dedupCall' = [pc |-> "delete", op |-> "consolidate",
                        ids |-> IdsOf(SelectSeq(duplicateMembers,
                                                LAMBDA r : r.id # keep)),
                        keep |-> keep,
                        list |-> duplicateMembers]
    /\ dedupDone' = NotDone
    /\ UNCHANGED <<membersTable, profileIsAdmin, duplicateMembers, selectedKeepId,
                   notDedupVars>>

\* The delete answers. Without an error the handler sets the list from the
\* one it held when it was called.
DeleteAnswered ==
    /\ dedupCall.pc = "delete"
    /\ \E error \in BOOLEAN :
        IF error
        THEN /\ dedupDone' = [op |-> dedupCall.op, result |-> "error",
                              keep |-> dedupCall.keep, list |-> dedupCall.list]
             /\ UNCHANGED <<membersTable, duplicateMembers>>
        ELSE /\ membersTable' = DeleteIn(membersTable, dedupCall.ids)
             /\ duplicateMembers' =
                    IF dedupCall.op = "delete"
                    THEN <<dedupCall.list[1]>>
                    ELSE SelectSeq(dedupCall.list,
                                   LAMBDA r : r.id = dedupCall.keep)
             /\ dedupDone' = [op |-> dedupCall.op, result |-> "ok",
                              keep |-> dedupCall.keep, list |-> dedupCall.list]
    /\ dedupCall' = NoDedupCall
    /\ UNCHANGED <<profileIsAdmin, selectedKeepId, notDedupVars>>

-----------------------------------------------------------------------------
(* The variant of App that keeps the session in its state and hands it to  *)
(* ProtectedRoute as a prop (unnamed/part_009, unnamed/part_005). The      *)
(* timers, the warning and safeSignOut of this guard are those of          *)
(* ProtectedRoute.tsx without the authTimeout.                             *)

PropIdle == session = "null" /\ effectSession = "none"

\* App has rendered with session = null and called getSession(); no effect
\* of the guard has run yet. The paths are those whose route both route
\* tables wrap alike.
InitProp ==
    /\ path \in Paths \ {"/expenses"}
    /\ hasSession \in BOOLEAN
    /\ loading = TRUE
    /\ showWarning = FALSE
    /\ timeout = Off
    /\ warningTimeout = Off
    /\ authPc = "pending"
    /\ authTimeout = Off
    /\ signingOut = {}
    /\ authEvents = 0
    /\ sessionSeen = FALSE
    /\ idle = 0
    /\ quiet = 0
    /\ dismissed = FALSE
    /\ signedOut = [cause |-> "none", result |-> "none"]
    /\ session = "null"
    /\ effectSession = "none"

\* The effect of the guard has not yet run for the session prop it holds.
EffectPending == Mounted /\ effectSession # session

\* The effect of the guard (part_005 lines 55-101), with the cleanup of its
\* last run: a null session prop calls safeSignOut, a session stops the
\* loading screen and starts the inactivity timer.
PropEffect ==
    /\ EffectPending
    /\ effectSession' = session
    /\ IF session = "null"
       THEN /\ signingOut' = signingOut \cup {"no session"}
            /\ timeout' = Off
            /\ warningTimeout' = Off
            /\ UNCHANGED <<loading, showWarning, sessionSeen, quiet>>
       ELSE /\ loading' = FALSE
            /\ timeout' = ResetTimeout.timeout
            /\ warningTimeout' = ResetTimeout.warningTimeout
            /\ showWarning' = ResetTimeout.showWarning
            /\ sessionSeen' = TRUE
            /\ quiet' = 0
            /\ UNCHANGED signingOut
    /\ UNCHANGED <<path, hasSession, authPc, authTimeout, authEvents, idle,
                   dismissed, signedOut, session, notPropVars>>

\* supabase.auth.getSession() of App answers (part_009 line 104):
\* setSession(data.session).
AppSessionAnswered ==
    /\ ~EffectPending
    /\ authPc = "pending"
    /\ authPc' = "done"
    /\ session' = IF hasSession THEN "session" ELSE "null"
    /\ UNCHANGED <<path, hasSession, loading, showWarning, timeout,
                   warningTimeout, authTimeout, signingOut, authEvents,
                   sessionSeen, idle, quiet, dismissed, signedOut,
                   effectSession, notPropVars>>

\* The onAuthStateChange callback of App (part_009 lines 107-109):
\* setSession(session), with the session the client holds.
AppAuthStateChange ==
    /\ ~EffectPending
    /\ authEvents < MaxAuthEvents
    /\ authEvents' = authEvents + 1
    /\ session' = IF hasSession THEN "session" ELSE "null"
    /\ UNCHANGED <<path, hasSession, loading, showWarning, timeout,
                   warningTimeout, authPc, authTimeout, signingOut, sessionSeen,
                   idle, quiet, dismissed, signedOut, effectSession, notPropVars>>

\* signOut() of a safeSignOut call ends and its finally block navigates to
\* /login. A sign-out that succeeded removes the stored session and the
\* auth listener of App sets the session state to null.
PropSignOutReturned ==
    /\ ~EffectPending
    /\ \E cause \in signingOut, result \in SignOutResults :
          /\ GuardSignOutReturned(cause, result, "/login")
          /\ session' = IF result = "ok" THEN "null" ELSE session
    /\ effectSession' = "none"
    /\ UNCHANGED notPropVars

-----------------------------------------------------------------------------
(* Sign-out and the next login in the same browser tab.                    *)

\* The sessionStorage key a page reads its admin flag from.
PageKey(p) == IF p.name = "CSR" THEN CsrKey ELSE AdminKey

\* What a sign-out leaves in sessionStorage: handleLogout, safeSignOut and
\* the IdleTimer call supabase.auth.signOut() and navigate; none of them
\* removes a key.
StorageAfterSignOut(flags) == flags

\* A tab just opened: sessionStorage is empty.
InitFreshTab ==
    /\ InitAdmin
    /\ sessionFlags = {}
    /\ flagsAtLogin = {}

\* The user signs out (Profile.handleLogout, the idle logout of the guard,
\* the IdleTimer) and the app shows /login; then a user logs in in the same
\* tab, with any member rows. The page that was mounted is unmounted as in
\* LeavePage.
SignOutAndLogIn ==
    /\ csrCall.pc # "insert"
    /\ profileCall.pc = "idle"
    /\ adminPage' = NoPage
    /\ isAdmin' = FALSE
    /\ adminVia' = "none"
    /\ adminPasswordInput' = ""
    /\ adminSignInOpen' = FALSE
    /\ projects' = <<>>
    /\ csrCall' = NoCsrCall
    /\ csrEvents' = 0
    /\ csrFetch' = NoFetch
    /\ sessionFlags' = StorageAfterSignOut(sessionFlags)
    /\ flagsAtLogin' = sessionFlags'
    /\ memberRows' \in [count : 0 .. 2, is_admin : BOOLEAN]
    /\ UNCHANGED <<lastWrite, csrTable, notTabVars>>

-----------------------------------------------------------------------------
(* The Expenses page (pages/Expenses.tsx and unnamed/part_004): the rows   *)
(* it writes to the expenses table, its paging and filter state, and the   *)
(* calls of fetchExpenses with the arguments each caller hands over.       *)

\* Bounds of the Expenses page model.
MaxLogged == 2
MaxPage == 2
MaxExpFetches == 1
MaxExpEvents == 1

\* useState limit, the rows of one page (20 in the source, scaled).
limit == 1

ExpSources == {"Expenses.tsx", "part_004"}
ExpStatuses == {"Pending", "Approved", "Rejected"}
StatusChoices == {"all"} \cup ExpStatuses

\* Dates are day numbers; the empty string of an unset date input is NoDate.
NoDate == 0
ExpDates == 1 .. MaxLogged
DateInputs == {NoDate, MaxLogged}

\* The object addExpense inserts. Expenses.tsx leaves approved_by out, so
\* the column keeps its null default; part_004 sends "Pending" for it.
NewExpense(source, id, d) ==
    [id |-> id, date |-> d, status |-> "Pending",
     approved_by |-> IF source = "part_004" THEN "Pending" ELSE "null"]

\* The object updateExpenseStatus sends.
UpdateData(status) ==
    [status |-> status,
     approved_by |-> IF status = "Approved" THEN "Admin" ELSE "null"]

ApplyUpdate(rows, id, status) ==
    [i \in DOMAIN rows |->
        IF rows[i].id = id
        THEN [rows[i] EXCEPT !.status = UpdateData(status).status,
                             !.approved_by = UpdateData(status).approved_by]
        ELSE rows[i]]

\* order("date", { ascending: false }); the dates of the rows are distinct.
RECURSIVE DescByDate(_)
DescByDate(S) ==
    IF S = {} THEN <<>>
    ELSE LET r == CHOOSE x \in S : \A y \in S : y.date <= x.date
         IN  <<r>> \o DescByDate(S \ {r})

\* range((p - 1) * l, p * l - 1), zero-based and inclusive.
RangeOf(rows, p, l) ==
    IF (p - 1) * l + 1 > Len(rows) THEN <<>>
    ELSE SubSeq(rows, (p - 1) * l + 1,
                IF p * l < Len(rows) THEN p * l ELSE Len(rows))

\* The select of fetchExpenses for page p, status st, dates s and e. The
\* map of the answer keeps id, status and approved_by, and a date-only
\* string goes through toISOString().split("T")[0] unchanged.
Query(tbl, p, st, s, e) ==
    LET matching ==
            {tbl[i] : i \in {j \in DOMAIN tbl :
                /\ (st # "all" => tbl[j].status = st)
                /\ (s # NoDate => tbl[j].date >= s)
                /\ (e # NoDate => tbl[j].date <= e)}}
    IN  RangeOf(DescByDate(matching), p, limit)

\* A call of fetchExpenses: the arguments it reads from opts or from the
\* state of the render its caller belongs to, and who called it.
FetchOf(p, st, s, e, by) == [page |-> p, status |-> st, start |-> s, end |-> e, by |-> by]
NoExpFetch == [page |-> 0, status |-> "all", start |-> NoDate, end |-> NoDate, by |-> "none"]

XpIdle ==
    /\ expSource = "none"
    /\ expensesTable = <<>>
    /\ expPage = 1
    /\ statusFilter = "all"
    /\ startDate = NoDate
    /\ endDate = NoDate
    /\ expensesShown = <<>>
    /\ xpLoading = FALSE
    /\ xpIsAdmin = FALSE
    /\ expFetches = {}
    /\ subscribed = FALSE
    /\ expEvents = 0
    /\ justFetched = NoExpFetch

\* The page once its effect has run: the useState initial values, isAdmin
\* read from the tab's storage, and the first fetchExpenses under way.
\* part_004 subscribes in the effect, Expenses.tsx after initialize's awaits.
InitExpenses ==
    /\ expSource \in ExpSources
    /\ expensesTable = <<>>
    /\ expPage = 1
    /\ statusFilter = "all"
    /\ startDate = NoDate
    /\ endDate = NoDate
    /\ expensesShown = <<>>
    /\ xpLoading = TRUE
    /\ xpIsAdmin \in BOOLEAN
    /\ expFetches = {FetchOf(1, "all", NoDate, NoDate, "mount")}
    /\ subscribed = (expSource = "part_004")
    /\ expEvents = 0
    /\ justFetched = NoExpFetch

\* fetchExpenses is called: setLoading(true) and the query is sent.
StartFetch(f) ==
    /\ Cardinality(expFetches \cup {f}) <= MaxExpFetches
    /\ expFetches' = expFetches \cup {f}
    /\ xpLoading' = TRUE
    /\ justFetched' = NoExpFetch

\* A write to the table reaches the page's channel as one change event.
Notify ==
    /\ subscribed => expEvents < MaxExpEvents
    /\ expEvents' = IF subscribed THEN expEvents + 1 ELSE expEvents

\* A query of fetchExpenses is answered (lines 128-151): the rows replace
\* the list, or the error is kept and the list stays. initialize of
\* Expenses.tsx subscribes once its own fetch has returned.
FetchExpensesAnswered ==
    \E f \in expFetches, ok \in BOOLEAN :
        /\ expFetches' = expFetches \ {f}
        /\ xpLoading' = FALSE
        /\ expensesShown' =
              IF ok THEN Query(expensesTable, f.page, f.status, f.start, f.end)
              ELSE expensesShown
        /\ justFetched' = IF ok THEN f ELSE NoExpFetch
        /\ subscribed' = (subscribed \/ f.by = "mount")
        /\ UNCHANGED <<expSource, expensesTable, expPage, statusFilter, startDate,
                       endDate, xpIsAdmin, expEvents, notXpVars>>

\* The channel's callback: fetchExpenses() of the render the effect ran in,
\* whose page and filters are the useState initial values.
ExpensesChanged ==
    /\ subscribed
    /\ expEvents > 0
    /\ expEvents' = expEvents - 1
    /\ StartFetch(FetchOf(1, "all", NoDate, NoDate, "change"))
    /\ UNCHANGED <<expSource, expensesTable, expPage, statusFilter, startDate,
                   endDate, expensesShown, xpIsAdmin, subscribed, notXpVars>>

\* addExpense with the form filled and the insert accepted: the row is
\* inserted and fetchExpenses({ page: 1 }) follows; setPage is not called.
AddExpense ==
    /\ expSource \in ExpSources
    /\ Len(expensesTable) < MaxLogged
    /\ \E d \in ExpDates \ {expensesTable[i].date : i \in DOMAIN expensesTable} :
          expensesTable' =
              Append(expensesTable,
                     NewExpense(expSource, Len(expensesTable) + 1, d))
    /\ Notify
    /\ StartFetch(FetchOf(1, statusFilter, startDate, endDate, "add"))
    /\ UNCHANGED <<expSource, expPage, statusFilter, startDate, endDate,
                   expensesShown, xpIsAdmin, subscribed, notXpVars>>

\* updateExpenseStatus from the Approve or Reject button of a row shown to
\* an admin, the update accepted. Expenses.tsx patches the list in place
\* and disables the button of the status the row has; part_004 calls
\* fetchExpenses().
SetExpenseStatus ==
    /\ expSource \in ExpSources
    /\ ~xpLoading
    /\ xpIsAdmin
    /\ \E i \in DOMAIN expensesShown, status \in {"Approved", "Rejected"} :
          /\ expSource = "Expenses.tsx" => expensesShown[i].status # status
          /\ expensesTable' =
                ApplyUpdate(expensesTable, expensesShown[i].id, status)
          /\ IF expSource = "Expenses.tsx"
             THEN /\ expensesShown' =
                        ApplyUpdate(expensesShown, expensesShown[i].id, status)
                  /\ justFetched' = NoExpFetch
                  /\ UNCHANGED <<expFetches, xpLoading>>
             ELSE /\ StartFetch(FetchOf(expPage, statusFilter, startDate,
                                        endDate, "update"))
                  /\ UNCHANGED expensesShown
    /\ Notify
    /\ UNCHANGED <<expSource, expPage, statusFilter, startDate, endDate,
                   xpIsAdmin, subscribed, notXpVars>>

\* The Next button, disabled while the list is shorter than a page.
NextPage ==
    /\ expSource \in ExpSources
    /\ ~xpLoading
    /\ Len(expensesShown) >= limit
    /\ expPage < MaxPage
    /\ expPage' = expPage + 1
    /\ StartFetch(FetchOf(expPage + 1, statusFilter, startDate, endDate, "button"))
    /\ UNCHANGED <<expSource, expensesTable, statusFilter, startDate, endDate,
                   expensesShown, xpIsAdmin, subscribed, expEvents, notXpVars>>

\* The Previous button.
PreviousPage ==
    /\ expSource \in ExpSources
    /\ ~xpLoading
    /\ expPage > 1
    /\ expPage' = expPage - 1
    /\ StartFetch(FetchOf(expPage - 1, statusFilter, startDate, endDate, "button"))
    /\ UNCHANGED <<expSource, expensesTable, statusFilter, startDate, endDate,
                   expensesShown, xpIsAdmin, subscribed, expEvents, notXpVars>>

\* The status select: Expenses.tsx stores the choice; part_004 also goes to
\* page 1 and fetches with the choice.
SelectStatus ==
    /\ expSource \in ExpSources
    /\ \E v \in StatusChoices \ {statusFilter} :
          /\ statusFilter' = v
          /\ IF expSource = "Expenses.tsx"
             THEN /\ justFetched' = NoExpFetch
                  /\ UNCHANGED <<expPage, expFetches, xpLoading>>
             ELSE /\ expPage' = 1
                  /\ StartFetch(FetchOf(1, v, startDate, endDate, "select"))
    /\ UNCHANGED <<expSource, expensesTable, startDate, endDate, expensesShown,
                   xpIsAdmin, subscribed, expEvents, notXpVars>>

\* The two date inputs store what is typed.
SetStartDate ==
    /\ expSource \in ExpSources
    /\ \E d \in DateInputs \ {startDate} : startDate' = d
    /\ justFetched' = NoExpFetch
    /\ UNCHANGED <<expSource, expensesTable, expPage, statusFilter, endDate,
                   expensesShown, xpLoading, xpIsAdmin, expFetches, subscribed,
                   expEvents, notXpVars>>

SetEndDate ==
    /\ expSource \in ExpSources
    /\ \E d \in DateInputs \ {endDate} : endDate' = d
    /\ justFetched' = NoExpFetch
    /\ UNCHANGED <<expSource, expensesTable, expPage, statusFilter, startDate,
                   expensesShown, xpLoading, xpIsAdmin, expFetches, subscribed,
                   expEvents, notXpVars>>

\* Apply: applyFilters of Expenses.tsx goes to page 1; the button of
\* part_004 fetches page 1 and leaves the page number.
ApplyFilters ==
    /\ expSource \in ExpSources
    /\ expPage' = IF expSource = "Expenses.tsx" THEN 1 ELSE expPage
    /\ StartFetch(FetchOf(1, statusFilter, startDate, endDate, "apply"))
    /\ UNCHANGED <<expSource, expensesTable, statusFilter, startDate, endDate,
                   expensesShown, xpIsAdmin, subscribed, expEvents, notXpVars>>

\* Clear: the filters and the page are reset; fetchExpenses gets page 1 and
\* status "all", and reads the dates of the render the click happened in.
ClearFilters ==
    /\ expSource \in ExpSources
    /\ startDate' = NoDate
    /\ endDate' = NoDate
    /\ statusFilter' = "all"
    /\ expPage' = 1
    /\ StartFetch(FetchOf(1, "all", startDate, endDate, "clear"))
    /\ UNCHANGED <<expSource, expensesTable, expensesShown, xpIsAdmin,
                   subscribed, expEvents, notXpVars>>

-----------------------------------------------------------------------------
(* The bulk upload of the Contributions page (handleBulkUpload of          *)
(* pages/Dashboard.tsx and unnamed/part_003): the loop over the parsed     *)
(* rows that finds or creates each row's member, then the batch upsert.    *)

\* Bound: the rows of one upload.
MaxBulkRows == 3

\* Member names a row may carry, as texts; the empty text is a row with
\* the name missing.
BulkNames == {<<"A", "n">>, <<"a", "n">>, <<"b", "o">>, <<>>}

\* parsedData.data: the rows Papa.parse returns for the pasted text, each
\* with its member_name and month (year and amount are present).
BulkRowChoices == [member_name : BulkNames, month : 1 .. 2]

RECURSIVE RowSeqs(_)
RowSeqs(n) ==
    IF n = 0 THEN {<<>>}
    ELSE RowSeqs(n - 1) \cup
         {Append(q, r) : q \in RowSeqs(n - 1), r \in BulkRowChoices}

\* members.find(m => m.name.toLowerCase() === row.member_name.toLowerCase()):
\* the id of the first match, 0 when find returns undefined.
FindMember(list, name) ==
    LET hits == {i \in DOMAIN list :
                    ToLowerCase(list[i].name) = ToLowerCase(name)}
    IN  IF hits = {} THEN 0
        ELSE list[CHOOSE i \in hits : \A j \in hits : i <= j].id

BulkIdle ==
    /\ parsedRows = <<>>
    /\ bulkMembers = <<>>
    /\ membersState = <<>>
    /\ bulkTable = <<>>
    /\ rowNo = 0
    /\ contributionsToAdd = <<>>
    /\ bulkOutcome = "none"

\* The click on Upload with text pasted and parsed without errors: the
\* handler holds the members of the render it was created in, which are
\* the rows of the members table the page fetched.
InitBulk ==
    /\ parsedRows \in RowSeqs(MaxBulkRows) \ {<<>>}
    /\ bulkTable \in {<<>>, <<[id |-> 1, name |-> <<"b", "o">>]>>}
    /\ bulkMembers = bulkTable
    /\ membersState = bulkTable
    /\ rowNo = 1
    /\ contributionsToAdd = <<>>
    /\ bulkOutcome = "running"

\* One pass of the loop. A row with a field missing is skipped. A member
\* found in the handler's members gives its id; otherwise a row is
\* inserted into the members table, which answers with the new row or with
\* an error that skips the row. setMembers appends to the state of the
\* next render; the members the loop searches stay as they were.
BulkRow ==
    /\ bulkOutcome = "running"
    /\ rowNo <= Len(parsedRows)
    /\ rowNo' = rowNo + 1
    /\ LET row == parsedRows[rowNo]
           existing == FindMember(bulkMembers, row.member_name)
           newId == Len(bulkTable) + 1
       IN  IF row.member_name = <<>>
           THEN UNCHANGED <<bulkTable, membersState, contributionsToAdd>>
           ELSE IF existing # 0
           THEN /\ contributionsToAdd' =
                      Append(contributionsToAdd,
                             [member_id |-> existing, month |-> row.month])
                /\ UNCHANGED <<bulkTable, membersState>>
           ELSE \E ok \in BOOLEAN :
                  IF ok
                  THEN /\ bulkTable' =
                             Append(bulkTable,
                                    [id |-> newId, name |-> row.member_name])
                       /\ membersState' =
                             Append(membersState,
                                    [id |-> newId, name |-> row.member_name])
                       /\ contributionsToAdd' =
                             Append(contributionsToAdd,
                                    [member_id |-> newId, month |-> row.month])
                  ELSE UNCHANGED <<bulkTable, membersState, contributionsToAdd>>
    /\ UNCHANGED <<parsedRows, bulkMembers, bulkOutcome, notBulkVars>>

\* After the loop: the batch upsert when there is something to send, and
\* the end of the handler.
BulkUpsert ==
    /\ bulkOutcome = "running"
    /\ rowNo > Len(parsedRows)
    /\ \E ok \in BOOLEAN :
          bulkOutcome' = IF contributionsToAdd = <<>> THEN "nothing"
                         ELSE IF ok THEN "upserted" ELSE "error"
    /\ UNCHANGED <<parsedRows, bulkMembers, membersState, bulkTable, rowNo,
                   contributionsToAdd, notBulkVars>>

\* The parts added later are not running while another part is modelled.
ProfileIdle == profileCall = NoProfileCall /\ timerRef = Off
NewIdle == XpIdle /\ BulkIdle
TailIdle == RtIdle /\ DedupIdle /\ PropIdle /\ flagsAtLogin = {} /\ NewIdle
LateIdle == DashIdle /\ AdminIdle /\ CsvIdle /\ AuthIdle /\ ProfileIdle /\ TailIdle

\* The month computation is not running while another part is modelled.
MonthsIdle == rangeIn = DefaultForm /\ rangePc = "input" /\ months = <<>>

InitPage == InitContrib /\ MonthsIdle /\ GuardIdle /\ LateIdle

NextContrib ==
    \/ OpenForm
    \/ EditForm(ValidForms)
    \/ HandleAddContribution
    \/ \E k \in Calls : ServerUpsert(k)
    \/ \E k \in Calls : UpsertFailed(k)
    \/ \E k \in Calls : UpsertSucceeded(k)
    \/ ExternalChange
    \/ ChangeEvent
    \/ \E f \in DOMAIN fetches : FetchStored(f)
    \/ \E f \in DOMAIN fetches : FetchReturned(f)

SpecContrib == InitPage /\ [][NextContrib]_vars

\* The form and the checks of the handler over every kind of entry, with a
\* backend that has not answered yet.
NextForm ==
    \/ OpenForm
    \/ CancelForm
    \/ EditForm(FormChoices)
    \/ HandleAddContribution

SpecForm == InitPage /\ [][NextForm]_vars

\* The month computation over every range the form offers.
InitRange ==
    InitMonths /\ InitContrib /\ variant = "Dashboard" /\ GuardIdle /\ LateIdle

NextMonths == RejectRange \/ BuildRange

SpecMonths == InitRange /\ [][NextMonths]_vars

\* A visitor opens the app at some path, with or without a session.
InitVisit ==
    InitGuard /\ InitContrib /\ variant = "Dashboard" /\ MonthsIdle /\ LateIdle

NextGuard ==
    \/ SessionAnswered
    \/ AuthTimedOut
    \/ AuthStateChange
    \/ Activity
    \/ StayLoggedIn
    \/ StartWarning
    \/ WarningElapsed
    \/ SignOutReturned
    \/ Tick

SpecGuard == InitVisit /\ [][NextGuard]_vars

\* The Dashboard over every small content of the two tables.
EarlyIdle == InitContrib /\ variant = "Dashboard" /\ MonthsIdle /\ GuardIdle

InitDashboard ==
    InitDash /\ EarlyIdle /\ AdminIdle /\ CsvIdle /\ AuthIdle /\ ProfileIdle /\ TailIdle

NextDash == DashFetchData \/ SetYearFilter

SpecMonthly == InitDashboard /\ [][NextDash]_vars

\* A browser tab that visits the pages behind the admin gate.
InitTab ==
    InitAdmin /\ EarlyIdle /\ DashIdle /\ CsvIdle /\ AuthIdle /\ ProfileIdle /\ TailIdle

NextAdmin ==
    \/ OpenPage
    \/ LeavePage
    \/ TypePassword
    \/ AdminSignIn
    \/ Authenticate
    \/ UpdateExpenseStatus
    \/ ProfileAdminWrite
    \/ CreateProfileFromAuth
    \/ ProfileInsertAnswered
    \/ ProfileRetryWaited
    \/ CsrSubmit
    \/ CsrServerInsert
    \/ CsrInsertAnswered
    \/ CsrChangeEvent
    \/ CsrFetchStored

SpecAdmin == InitTab /\ [][NextAdmin]_vars

\* The export over every small list of contributions and every filter.
InitExport ==
    InitCsv /\ EarlyIdle /\ DashIdle /\ AdminIdle /\ AuthIdle /\ ProfileIdle /\ TailIdle

NextCsv == SetFilter \/ ClickExportCSV \/ ParseExport

SpecCsv == InitExport /\ [][NextCsv]_vars

\* The app opened at a path, with the guard and the IdleTimer.
InitLayout ==
    /\ InitGuard
    /\ InitIdleTimer
    /\ InitContrib /\ variant = "Dashboard"
    /\ MonthsIdle
    /\ DashIdle /\ AdminIdle /\ CsvIdle /\ AuthIdle /\ profileCall = NoProfileCall
    /\ TailIdle

NextRoute ==
    \/ SessionAnswered
    \/ AuthTimedOut
    \/ AuthStateChange
    \/ RouteActivity
    \/ RouteStayLoggedIn
    \/ StartWarning
    \/ WarningElapsed
    \/ IdleTimerFired
    \/ RouteSignOutReturned
    \/ RouteTick

SpecRoute == InitLayout /\ [][NextRoute]_vars

\* One of the sign-up, reset and login pages with any input.
InitForms ==
    InitAuth /\ EarlyIdle /\ DashIdle /\ AdminIdle /\ CsvIdle /\ ProfileIdle /\ TailIdle

NextSignup ==
    \/ TypeAuthForm
    \/ HandleSignup
    \/ SignUpAnswered
    \/ PollQuery
    \/ PollWaited
    \/ HandleResetPassword
    \/ HandleForgotPassword
    \/ AuthCallAnswered

SpecSignup == InitForms /\ [][NextSignup]_vars

\* The same where an awaited answer and a due timer always arrive.
SpecSignupFair ==
    SpecSignup /\ WF_vars(SignUpAnswered) /\ WF_vars(PollQuery) /\ WF_vars(PollWaited)

\* The pages mounted and unmounted by the router while tables change.
OldIdle == EarlyIdle /\ DashIdle /\ AdminIdle /\ CsvIdle /\ AuthIdle /\ ProfileIdle

InitChannels ==
    InitRt /\ OldIdle /\ DedupIdle /\ PropIdle /\ flagsAtLogin = {} /\ NewIdle

NextRealtime == MountPage \/ ExpensesInitialized \/ UnmountPage \/ TableChanged

SpecRealtime == InitChannels /\ [][NextRealtime]_vars

\* The Profile page over any members table.
InitProfile ==
    InitDedup /\ OldIdle /\ RtIdle /\ PropIdle /\ flagsAtLogin = {} /\ NewIdle

NextDedup ==
    \/ FetchProfileAnswered
    \/ SelectKeep
    \/ DeleteDuplicateMembers
    \/ ConsolidateDuplicates
    \/ DeleteAnswered

SpecDedup == InitProfile /\ [][NextDedup]_vars

\* The app of the variant opened at a path.
InitSessionProp ==
    /\ InitProp
    /\ InitContrib /\ variant = "Dashboard"
    /\ MonthsIdle /\ DashIdle /\ AdminIdle /\ CsvIdle /\ AuthIdle /\ ProfileIdle
    /\ RtIdle /\ DedupIdle /\ flagsAtLogin = {} /\ NewIdle

NextSessionProp ==
    \/ PropEffect
    \/ AppSessionAnswered
    \/ AppAuthStateChange
    \/ PropSignOutReturned
    \/ Activity
    \/ StayLoggedIn
    \/ StartWarning
    \/ WarningElapsed
    \/ Tick

SpecSessionProp == InitSessionProp /\ [][NextSessionProp]_vars

\* One browser tab over several logins.
InitLogins ==
    /\ InitFreshTab
    /\ EarlyIdle /\ DashIdle /\ CsvIdle /\ AuthIdle /\ ProfileIdle
    /\ RtIdle /\ DedupIdle /\ PropIdle /\ NewIdle

NextTab ==
    \/ OpenPage
    \/ LeavePage
    \/ TypePassword
    \/ AdminSignIn
    \/ Authenticate
    \/ UpdateExpenseStatus
    \/ ProfileAdminWrite
    \/ CsrSubmit
    \/ CsrServerInsert
    \/ CsrInsertAnswered
    \/ CsrChangeEvent
    \/ CsrFetchStored
    \/ SignOutAndLogIn

SpecTab == InitLogins /\ [][NextTab]_vars

\* The Expenses page from its mount on, in either source.
InitExpensesPage ==
    /\ InitExpenses /\ OldIdle /\ RtIdle /\ DedupIdle /\ PropIdle
    /\ flagsAtLogin = {} /\ BulkIdle

NextExpenses ==
    \/ FetchExpensesAnswered
    \/ ExpensesChanged
    \/ AddExpense
    \/ SetExpenseStatus
    \/ NextPage
    \/ PreviousPage
    \/ SelectStatus
    \/ SetStartDate
    \/ SetEndDate
    \/ ApplyFilters
    \/ ClearFilters

SpecExpenses == InitExpensesPage /\ [][NextExpenses]_vars

\* One run of handleBulkUpload over every upload of up to MaxBulkRows rows.
InitUpload ==
    /\ InitBulk /\ OldIdle /\ RtIdle /\ DedupIdle /\ PropIdle
    /\ flagsAtLogin = {} /\ XpIdle

NextBulk == BulkRow \/ BulkUpsert

SpecBulk == InitUpload /\ [][NextBulk]_vars

-----------------------------------------------------------------------------
(* Properties of the optimistic contribution write.                        *)

\* Steps of one call k of handleAddContribution, read off two states.
RolledBack(k) == subs[k].pc = "answered" /\ subs'[k].pc = "idle"
Applied(k) ==
    subs[k].pc = "upsert" /\ subs'[k].pc = "answered" /\ subs'[k].outcome = "ok"
Completed(k) == subs[k].pc = "refetch" /\ subs'[k].pc = "idle"

HasRowOf(list, ids) == \E i \in DOMAIN list : list[i].id \in ids

\* C1: when the upsert of a submission fails (error result or exception),
\* the rows that remain are the rows of the list whose id is not one of that
\* submission's temporary ids, in their order; and when nothing else changed
\* the list since the submission, the list is again the one shown before it.
C1_RollbackRemovesOwnRows ==
    [][\A k \in Calls : RolledBack(k) =>
          /\ ~HasRowOf(contributions', subs[k].tempIds)
          /\ contributions' =
                SelectSeq(contributions, LAMBDA c : c.id \notin subs[k].tempIds)
          /\ ~subs[k].touched => contributions' = subs[k].before]_vars

\* C1 witness: a submission was rolled back while another one was waiting
\* for its upsert, and the optimistic rows of the other one are still shown.
C1_Witness ==
    /\ addOutcome = "rolled back"
    /\ \E j \in Calls : InFlight(subs[j]) /\ HasRowOf(contributions, subs[j].tempIds)

\* The conditions of the claim, stated on the form's fields.
FromAfterTo(nc) ==
    \/ nc.fromYear > nc.toYear
    \/ nc.fromYear = nc.toYear /\ nc.fromMonth > nc.toMonth
FormInvalid(nc) == nc.member_id = "" \/ nc.amount <= 0 \/ FromAfterTo(nc)

\* C2: a call of handleAddContribution with no member, an amount <= 0 or a
\* from month after the to month returns at one of its checks: no call is
\* left waiting for an upsert, the table, the list and the form are as they
\* were and the form stays open.
C2_InvalidFormRejected ==
    [][(FormInvalid(newContribution) /\ addOutcome' # addOutcome) =>
          /\ addOutcome' \in {"busy", "no member", "bad amount", "bad range"}
          /\ UNCHANGED <<subs, table, nextId, fetches, pendingChanges,
                         contributions, newContribution, showAddContribution>>]_vars

\* C2 witness: the handler returned at the range check with the form open on
\* a range whose start is after its end.
C2_Witness ==
    /\ addOutcome = "bad range"
    /\ showAddContribution
    /\ FromAfterTo(newContribution)
    /\ \A k \in Calls : ~Running(subs[k])

\* Months counted from year 0.
Ord(m) == m.year * 12 + m.month

\* C3: a range is rejected exactly when its from month is after its to
\* month; for an accepted range the month list starts at the from month,
\* ends at the to month, has (toYear*12+toMonth) - (fromYear*12+fromMonth) + 1
\* entries, each entry is the calendar month after the one before it
\* (January of the next year after December), and the upsert batch has one
\* row per entry, whose contribution_month reads back as that entry.
C3_MonthListContiguous ==
    /\ rangePc = "rejected" => FromAfterTo(rangeIn)
    /\ rangePc = "built" =>
          LET batch == Inserts(rangeIn, months)
          IN  /\ ~FromAfterTo(rangeIn)
              /\ Len(months) =
                    (rangeIn.toYear * 12 + rangeIn.toMonth)
                    - (rangeIn.fromYear * 12 + rangeIn.fromMonth) + 1
              /\ months[1] = [year |-> rangeIn.fromYear, month |-> rangeIn.fromMonth]
              /\ months[Len(months)] =
                    [year |-> rangeIn.toYear, month |-> rangeIn.toMonth]
              /\ \A i \in DOMAIN months : months[i].month \in 1 .. 12
              /\ \A i \in 1 .. Len(months) - 1 :
                    /\ Ord(months[i + 1]) = Ord(months[i]) + 1
                    /\ months[i].month = 12 =>
                          /\ months[i + 1].month = 1
                          /\ months[i + 1].year = months[i].year + 1
              /\ Len(batch) = Len(months)
              /\ \A i \in DOMAIN batch :
                    /\ ToNumber(batch[i].contribution_month.y) = months[i].year
                    /\ ToNumber(batch[i].contribution_month.m) = months[i].month
                    /\ Len(batch[i].contribution_month.m) = 2

\* C3 witness: a list was built that runs over more than one turn of the
\* year.
C3_Witness ==
    /\ rangePc = "built"
    /\ Len(months) > 13
    /\ \E i \in 1 .. Len(months) - 1 :
          months[i].month = 12 /\ months[i + 1].month = 1

\* The rows the re-fetch awaited by call k got from the backend.
RefetchRows(k) ==
    fetches[CHOOSE f \in DOMAIN fetches : fetches[f].by = k].rows
StoredBy(k) ==
    /\ \E f \in DOMAIN fetches : fetches[f].by = k /\ fetches[f].pc = "answered"
    /\ \E g \in DOMAIN fetches' : fetches'[g].by = k /\ fetches'[g].pc = "rest"

\* C4 as stated: when a submission completes after a successful upsert, the
\* list holds none of its temporary rows and equals the rows its re-fetch
\* returned.
C4_ListEqualsRefetchAtCompletion ==
    [][\A k \in Calls : Completed(k) =>
          /\ ~HasRowOf(contributions', subs[k].tempIds)
          /\ contributions' = RefetchRows(k)]_vars

\* C4 amended: the re-fetch awaited by the handler replaces the list with the
\* rows it read at the moment fetchData stores them, and no row with a
\* temporary id is left then; when the submission completes the list holds
\* none of its temporary rows, and in Dashboard.tsx, which stores the
\* returned rows a second time, it equals the rows of the re-fetch.
C4_RefetchReplacesList ==
    [][\A k \in Calls :
          /\ StoredBy(k) =>
                /\ contributions' = RefetchRows(k)
                /\ \A i \in DOMAIN contributions' : ~IsTempId(contributions'[i].id)
          /\ Completed(k) =>
                /\ ~HasRowOf(contributions', subs[k].tempIds)
                /\ variant = "Dashboard" => contributions' = RefetchRows(k)]_vars

\* C4 witness: a submission has completed, the list shows the rows of the
\* table, the submitted months among them, and no temporary row.
C4_Witness ==
    /\ addOutcome = "done"
    /\ contributions = Selected
    /\ \A i \in DOMAIN contributions : ~IsTempId(contributions[i].id)
    /\ \E i \in DOMAIN contributions :
          /\ contributions[i].member_id = TwoMonthForm.member_id
          /\ contributions[i].year = TwoMonthForm.fromYear
          /\ contributions[i].month = TwoMonthForm.fromMonth

KeysOf(tbl) == {KeyOf(r) : r \in tbl}
BatchKeys(rows) == {KeyOf(rows[i]) : i \in DOMAIN rows}
RowsWithKey(tbl, key) == {r \in tbl : KeyOf(r) = key}

\* C5: once the backend has applied the upsert of a submission, the table
\* holds exactly one row for each (member, month) of its batch; and when
\* these keys were all in the table already, as they are when the same
\* member and range are submitted again, the table has the same keys and the
\* same number of rows as before.
C5_ResubmissionKeepsKeys ==
    [][\A k \in Calls : Applied(k) =>
          LET batch == BatchKeys(subs[k].inserts)
          IN  /\ \A key \in batch : Cardinality(RowsWithKey(table', key)) = 1
              /\ batch \subseteq KeysOf(table) =>
                    /\ KeysOf(table') = KeysOf(table)
                    /\ Cardinality(table') = Cardinality(table)]_vars

\* C5 witness: the upsert of a submission was applied whose months were
\* all shown as stored rows of that member when it was made.
C5_Witness ==
    \E k \in Calls :
        /\ subs[k].pc = "answered"
        /\ subs[k].outcome = "ok"
        /\ ~subs[k].touched
        /\ \A i \in DOMAIN subs[k].inserts :
              \E j \in DOMAIN subs[k].before :
                  LET row == subs[k].before[j]
                  IN  /\ ~IsTempId(row.id)
                      /\ row.member_id = subs[k].form.member_id
                      /\ ContributionMonth(row) = subs[k].inserts[i].contribution_month

AppliedOk(s) == s.pc \in {"answered", "refetch"} /\ s.outcome = "ok"
Overlapped(k, j) ==
    /\ k # j
    /\ AppliedOk(subs[k])
    /\ AppliedOk(subs[j])
    /\ subs[k].form = subs[j].form
OneRowPerKey(k) ==
    \A key \in BatchKeys(subs[k].inserts) : Cardinality(RowsWithKey(table, key)) = 1
RunningCalls == {k \in Calls : Running(subs[k])}

\* C6 as stated: two submissions of the same member and months whose upserts
\* were both applied leave one row per (member, month), and the handler never
\* turns a submission away because another one is running.
C6_OverlapNeverPrevented ==
    /\ \A k, j \in Calls : Overlapped(k, j) => OneRowPerKey(k)
    /\ addOutcome # "busy"

\* C6 amended: two overlapping submissions of the same member and months
\* leave one row per (member, month) in whatever order their upserts are
\* applied; Dashboard.tsx never turns the second one away, while part_003
\* returns at its isAddingContribution check, so that at most one submission
\* of part_003 is running at any time.
C6_OverlapOneRowPerKey ==
    /\ \A k, j \in Calls : Overlapped(k, j) => OneRowPerKey(k)
    /\ variant = "Dashboard" => addOutcome # "busy"
    /\ variant = "part_003" => Cardinality(RunningCalls) <= 1

\* C6 witness: the upserts of two submissions of the same form were both
\* applied before either of them returned to the page.
C6_Witness ==
    \E k, j \in Calls :
        /\ Overlapped(k, j)
        /\ subs[k].pc = "answered"
        /\ subs[j].pc = "answered"
        /\ OneRowPerKey(k)

\* Reached in part_003: a submission was turned away while another one was
\* running.
C6_Busy == addOutcome = "busy" /\ variant = "part_003" /\ RunningCalls # {}

-----------------------------------------------------------------------------
(* Properties of the guard and of the route table.                         *)

\* The modal is on the screen of a guard that was handed a session.
WarningShown == Mounted /\ ~loading /\ showWarning
NoTimerDue == ~Due(timeout) /\ ~Due(warningTimeout)

\* C7 as stated: with a confirmed session, once INACTIVITY_LIMIT -
\* WARNING_TIME minutes have passed without an activity event the warning is
\* showing, and no second warning is scheduled while one is showing.
C7_WarningAfterNoActivity ==
    /\ (Mounted /\ ~loading /\ NoTimerDue /\ idle >= INACTIVITY_LIMIT - WARNING_TIME)
          => showWarning
    /\ showWarning => ~timeout.armed

\* C7 amended: with a confirmed session, once INACTIVITY_LIMIT - WARNING_TIME
\* minutes have passed in which resetTimeout was not called, neither by an
\* activity event nor by an auth state change or a session check that handed
\* the guard a session, the warning is showing; it shows no earlier, and
\* while it shows no inactivity timer is armed that could start a second one.
C7_WarningAfterQuietPeriod ==
    /\ (Mounted /\ ~loading /\ NoTimerDue /\ quiet >= INACTIVITY_LIMIT - WARNING_TIME)
          => showWarning
    /\ WarningShown => quiet >= INACTIVITY_LIMIT - WARNING_TIME
    /\ showWarning => ~timeout.armed

\* C7 witness: the modal has just appeared, INACTIVITY_LIMIT - WARNING_TIME
\* minutes after the last activity, with the logout timer started.
C7_Witness ==
    /\ WarningShown
    /\ idle = INACTIVITY_LIMIT - WARNING_TIME
    /\ quiet = INACTIVITY_LIMIT - WARNING_TIME
    /\ warningTimeout = SetTimeout(WARNING_TIME)

C9_SignOutAfterNoActivity ==
    /\ (Mounted /\ ~loading /\ NoTimerDue /\ idle >= INACTIVITY_LIMIT)
          => "idle" \in signingOut
    /\ signedOut.result \in SignOutResults => path = "/login"

\* C9 amended: with a confirmed session, once INACTIVITY_LIMIT minutes have
\* passed in which resetTimeout was not called (no activity event, no auth
\* state change or session check handing the guard a session), the guard has
\* called sign-out; and every safeSignOut that ended left the router at
\* /login, also when signOut() returned an error or threw.
C9_SignOutAfterQuietPeriod ==
    /\ (Mounted /\ ~loading /\ NoTimerDue /\ quiet >= INACTIVITY_LIMIT)
          => "idle" \in signingOut
    /\ signedOut.result \in SignOutResults => path = "/login"

\* C9 witness: the sign-out made after a full idle period threw, and the
\* router is at /login.
C9_Witness ==
    /\ signedOut = [cause |-> "idle", result |-> "throw"]
    /\ path = "/login"
    /\ idle = INACTIVITY_LIMIT

\* The pages behind the routes the claim names as guarded.
GuardedPages ==
    {"Dashboard", "CSR", "Contributions", "Expenses", "Resources", "Profile"}

\* C10 as stated: a page of /, /csr, /contributions, /expenses, /resources
\* or /profile is on the screen only after the guard was handed a session,
\* and never for a visitor who has none.
C10_PagesNeedSession ==
    Screen \in GuardedPages => (sessionSeen /\ hasSession)

\* The same for the routes whose element App wraps in ProtectedRoute.
WrappedPagesNeedSession ==
    (Mounted /\ Screen \in GuardedPages) => (sessionSeen /\ hasSession)

-----------------------------------------------------------------------------
(* Properties of the monthly aggregation of the Dashboard.                 *)

RECURSIVE SumOf(_, _)
SumOf(f, n) == IF n = 0 THEN 0 ELSE SumOf(f, n - 1) + f[n]

\* The amounts of the rows of the list that the year filter lets through;
\* a row that is filtered out counts as 0.
FilteredAmounts(list, yf) ==
    [i \in DOMAIN list |->
        IF MatchesYear(yf, list[i].year) THEN list[i].amount ELSE 0]

\* The same, keeping only the rows of month m.
AmountsOfMonth(list, yf, m) ==
    [i \in DOMAIN list |->
        IF MatchesYear(yf, list[i].year) /\ list[i].month = m
        THEN list[i].amount ELSE 0]

Collected(ms) == [i \in DOMAIN ms |-> ms[i].collected]

Shown == monthlyData # <<>>

\* C11: the buckets calculateMonthlyData returned are twelve; each bucket's
\* collected is the sum of the amounts of the contribution rows of that month
\* that pass the year filter, so the twelve collected values sum to the sum
\* of the amounts of all rows that pass the filter: each such row is counted
\* once.
C11_CollectedSumsFilteredRows ==
    Shown =>
        /\ Len(monthlyData) = 12
        /\ \A m \in 1 .. 12 :
              monthlyData[m].collected =
                  SumOf(AmountsOfMonth(dashContributions, yearFilter, m),
                        Len(dashContributions))
        /\ SumOf(Collected(monthlyData), 12) =
              SumOf(FilteredAmounts(dashContributions, yearFilter),
                    Len(dashContributions))

\* C11 witness: under the filter 2024 two rows are shown, one of January
\* 2024 that is counted and one of another year that is not.
C11_Witness ==
    /\ Shown
    /\ yearFilter = OneYear(<<2,0,2,4>>)
    /\ Len(dashContributions) = 2
    /\ \E i, j \in DOMAIN dashContributions :
          /\ dashContributions[i].year = 2024
          /\ dashContributions[i].month = 1
          /\ dashContributions[j].year = 2023
    /\ SumOf(Collected(monthlyData), 12) > 0
    /\ SumOf(Collected(monthlyData), 12) <
          SumOf([i \in DOMAIN dashContributions |-> dashContributions[i].amount], 2)

\* C12: every bucket has net = max(0, collected - expenses); net is never
\* negative.
C12_NetClampedAtZero ==
    Shown =>
        \A m \in 1 .. 12 :
            /\ monthlyData[m].net >= 0
            /\ monthlyData[m].net =
                  (IF monthlyData[m].collected >= monthlyData[m].expenses
                   THEN monthlyData[m].collected - monthlyData[m].expenses
                   ELSE 0)

\* C12 witness: a month in which the expenses exceed the collections.
C12_Witness ==
    /\ Shown
    /\ \E m \in 1 .. 12 :
          /\ monthlyData[m].collected > 0
          /\ monthlyData[m].expenses > monthlyData[m].collected
          /\ monthlyData[m].net = 0

-----------------------------------------------------------------------------
(* Properties of the admin gate and of the CSR page.                       *)

\* The flag of the page goes from unset to set.
FlagSet == ~isAdmin /\ isAdmin'

\* The page that is mounted finds its sessionStorage key set.
FoundInStorage ==
    /\ adminPage = NoPage /\ adminPage' # NoPage
    /\ (IF adminPage'.name = "CSR" THEN CsrKey ELSE AdminKey) \in sessionFlags

\* The Profile page that is mounted finds an admin role in the member row.
FoundInMemberRow ==
    /\ adminPage = NoPage /\ adminPage'.name = "Profile"
    /\ memberRows.count > 0 /\ memberRows.is_admin

\* The password that is submitted is exactly the hardcoded one.
ExactPasswordEntered ==
    /\ adminPage # NoPage /\ adminPage' = adminPage
    /\ adminPasswordInput = "Admin@123"

AllWritesWithFlag == lastWrite.admin

\* C13 as stated: every gated write (CSR insert of a project or of a
\* contribution, update of an expense's status, deletion and consolidation
\* of duplicate member rows, seeding of members) is sent while the page's
\* admin flag is set, and the flag becomes set only by submitting exactly
\* the hardcoded password or by finding the sessionStorage flag set when the
\* page is mounted.
C13_FlagOnlyByPasswordOrStorage ==
    /\ []AllWritesWithFlag
    /\ [][FlagSet => (ExactPasswordEntered \/ FoundInStorage)]_vars

\* C13 amended: as above, and the flag also becomes set when the second
\* source of the Profile page finds an admin role in the user's member row.
C13_FlagOnlyByPasswordStorageOrRole ==
    /\ []AllWritesWithFlag
    /\ [][FlagSet =>
            (ExactPasswordEntered \/ FoundInStorage \/ FoundInMemberRow)]_vars
    /\ [](isAdmin <=> adminVia \in {"password", "storage", "db"})

\* C13 witness: on the CSR page a wrong password was refused, the exact one
\* set the flag, and a project insert was sent after that.
C13_Witness ==
    /\ adminPage.name = "CSR"
    /\ adminVia = "password"
    /\ CsrKey \in sessionFlags
    /\ lastWrite = [op |-> "insert project", admin |-> TRUE]
    /\ csrCall.pc = "insert"

\* The handler of CSR returns after a successful insert.
InsertHandled ==
    /\ csrCall.pc = "answered" /\ csrCall.result = "ok"
    /\ csrCall' = NoCsrCall /\ adminPage' = adminPage

Listed(list, pid, id) ==
    \E i \in DOMAIN list :
        /\ list[i].id = pid
        /\ \E j \in DOMAIN list[i].csr_contributions :
               list[i].csr_contributions[j] = id

\* C15: when the response of a successful insert is handled, the new project
\* is in the displayed list in front of the projects shown before, which are
\* unchanged; a new contribution is listed under the project it names and the
\* other projects are unchanged.
C15_InsertShownAtOnce ==
    [][InsertHandled =>
          IF csrCall.kind = "project"
          THEN projects' =
                  <<[id |-> csrCall.data, csr_contributions |-> <<>>]>> \o projects
          ELSE /\ Listed(projects', csrCall.project_id, csrCall.data)
               /\ Len(projects') = Len(projects)
               /\ \A i \in DOMAIN projects :
                      projects[i].id # csrCall.project_id =>
                          projects'[i] = projects[i]]_vars

\* The same for the first source of the page while the project the
\* contribution names is still displayed.
InsertShownAtOnceFirstSource ==
    [][(InsertHandled /\ adminPage.source = 1
          /\ (csrCall.kind = "contribution" =>
                 \E i \in DOMAIN projects : projects[i].id = csrCall.project_id))
       =>
          IF csrCall.kind = "project"
          THEN projects' =
                  <<[id |-> csrCall.data, csr_contributions |-> <<>>]>> \o projects
          ELSE /\ Listed(projects', csrCall.project_id, csrCall.data)
               /\ Len(projects') = Len(projects)
               /\ \A i \in DOMAIN projects :
                      projects[i].id # csrCall.project_id =>
                          projects'[i] = projects[i]]_vars

-----------------------------------------------------------------------------
(* Properties of the CSV export.                                           *)

\* The rows of the filtered list, and the groups of the pivoted table.
CsvFiltered == Filtered(csvView.contributions, csvView.filter)
CsvGroups == PivotedContributions(CsvFiltered, CsvMembers, csvView.filter.search)

\* The export was made and parsed back.
ParsedBack == csvData.done /\ csvData.csv # NoCsv

\* The position of a column in the header line, 0 when it is missing.
ColumnOf(name) ==
    IF \E k \in DOMAIN csvData.csv.fields : csvData.csv.fields[k] = name
    THEN CHOOSE k \in DOMAIN csvData.csv.fields : csvData.csv.fields[k] = name
    ELSE 0

\* The field of a data row in a column, empty when the row has none.
FieldAt(i, k) ==
    IF k \in DOMAIN csvData.csv.data[i] THEN csvData.csv.data[i][k] ELSE <<>>

\* The number in a cell 'KSh 2,000', -1 when the cell is not of that form.
KshNum(cell) ==
    IF cell # <<>> /\ Head(cell) = "KSh "
    THEN Num(SelectSeq(Tail(cell), LAMBDA ch : ch # ","))
    ELSE -1

\* One data row per filtered row, with the amount of that row.
RowPerFilteredRow ==
    /\ Len(csvData.csv.data) = Len(CsvFiltered)
    /\ \A i \in DOMAIN CsvFiltered :
          Num(FieldAt(i, ColumnOf(<<"Amount (KSh)">>))) = CsvFiltered[i].amount

\* One data row per group of the pivoted table: its name, for each month of
\* the filtered rows the amount of a paid row, 'Unpaid' or '-', and the
\* total of its paid amounts.
RowPerGroup ==
    /\ Len(csvData.csv.data) = Len(CsvGroups)
    /\ Len(csvData.csv.fields) = Len(MonthYears(CsvFiltered)) + 2
    /\ \A i \in DOMAIN CsvGroups :
          /\ FieldAt(i, 1) = CsvGroups[i].member.name
          /\ KshNum(FieldAt(i, Len(csvData.csv.fields))) = PaidTotal(CsvGroups[i].rows)
          /\ \A k \in DOMAIN MonthYears(CsvFiltered) :
                LET hits == SelectSeq(CsvGroups[i].rows,
                               LAMBDA c : MonthKey(c) = MonthYears(CsvFiltered)[k])
                IN  IF hits = <<>> THEN FieldAt(i, k + 1) = <<"-">>
                    ELSE IF hits[Len(hits)].paid
                    THEN KshNum(FieldAt(i, k + 1)) = hits[Len(hits)].amount
                    ELSE FieldAt(i, k + 1) = <<"Unpaid">>

\* C14 as stated: the export of the contributions view, parsed back, has one
\* data row per row of the filtered list, with the same amounts.
C14_ExportRowPerFilteredRow == ParsedBack => RowPerFilteredRow

\* C14, amended: parsed back, the export of pages/Dashboard.tsx has one data
\* row per row of the filtered list with the same amounts, and the export of
\* unnamed/part_003 one data row per member group of the pivoted table, with
\* the amounts of its paid rows and their total.
C14_ExportRowPerShownRow ==
    ParsedBack =>
        IF csvView.source = "Dashboard" THEN RowPerFilteredRow ELSE RowPerGroup

\* C14: a filtered list of two rows, one of a name with a comma and an
\* amount written with a digit group, was exported by either source and
\* parsed back.
C14_Witness ==
    /\ ParsedBack
    /\ Len(CsvFiltered) = 2
    /\ \E i \in DOMAIN CsvFiltered :
          /\ CsvFiltered[i].full_name = <<"a", ",", "b">>
          /\ CsvFiltered[i].amount = 2000
    /\ csvView.filter.statusFilter = "paid"

-----------------------------------------------------------------------------
(* Properties of sign-up, password reset and forgot-password.              *)

\* The input of the sign-up form is invalid: a full name of fewer than two
\* characters besides the spaces around it; a phone number that, without its
\* spaces, is not 0 or +254, then 1 or 7, then eight digits; an email
\* without '@' (in Signup.tsx also one without '.'); a password of fewer
\* than six characters.
KenyanNumbers ==
    {lead \o <<first>> \o <<"1", "2", "3", "4", "5", "6", "7", "8">> :
        lead \in {<<"0">>, <<"+", "2", "5", "4">>}, first \in {"1", "7"}}
Characters(text) == {text[i] : i \in DOMAIN text}
SignupInputInvalid ==
    \/ Len(Trim(suForm.fullName)) < 2
    \/ NoSpaces(suForm.phone) \notin KenyanNumbers
    \/ "@" \notin Characters(suForm.email)
    \/ suPage = "Signup" /\ "." \notin Characters(suForm.email)
    \/ Len(suForm.password) < 6

\* An inline error is set and no backend call is awaited.
ErrorAndNoCall == suError' # "none" /\ suCall' = "idle"

\* C16: a sign-up with an invalid full name, phone number, email or
\* password, a password reset with two passwords that differ and a
\* forgot-password with an empty email each set the inline error and make
\* no call to the backend.
C16_InvalidInputNoBackendCall ==
    [][/\ (HandleSignup /\ SignupInputInvalid) => ErrorAndNoCall
       /\ (HandleResetPassword /\ suForm.password # suForm.confirmPassword)
             => ErrorAndNoCall
       /\ (HandleForgotPassword /\ suForm.email = <<>>) => ErrorAndNoCall]_vars

\* C16: the sign-up form was submitted with a valid name, email and
\* password and a phone number starting with 08, and shows the phone error.
C16_Witness ==
    /\ suPage = "part_000"
    /\ suForm.fullName = <<"a", "b">>
    /\ Len(suForm.phone) = 10 /\ suForm.phone[1] = "0" /\ suForm.phone[2] = "8"
    /\ "@" \in Characters(suForm.email)
    /\ Len(suForm.password) = 6
    /\ suError = "Please enter a valid Kenyan phone number (07XXXXXXXX or +2547XXXXXXXX)."
    /\ suCall = "idle"

\* The poll is running.
Polling == suCall \in {"query", "wait"}

\* The base delay of an attempt: the first one doubled with each attempt.
BaseOf(page, attempt) == FirstBase(page) * Pow2(attempt - 1)

\* At most maxAttempts queries.
AttemptsBounded ==
    Polling => poll.attempt \in 1 .. (IF suPage = "Signup" THEN maxAttempts
                                       ELSE maxAttemptsPart000)

\* The delay waited is the doubled base delay and a jitter below 200 ms.
DelayDoublesWithJitter ==
    suCall = "wait" =>
        /\ poll.delay >= BaseOf(suPage, poll.attempt)
        /\ poll.delay < BaseOf(suPage, poll.attempt) + jitterBelow

\* The same after a query that returned; after a query that threw the
\* delay is 1000 ms in Signup.tsx and the base delay in part_000.
DelayDoublesUnlessThrown ==
    suCall = "wait" =>
        IF poll.threw
        THEN poll.delay = (IF suPage = "Signup" THEN catchDelay
                           ELSE BaseOf(suPage, poll.attempt))
        ELSE /\ poll.delay >= BaseOf(suPage, poll.attempt)
             /\ poll.delay < BaseOf(suPage, poll.attempt) + jitterBelow

\* The query that finds the row is the last step of the poll.
StopsAtFirstFind ==
    [][(PollQuery /\ pollResult' = "found") => (suCall' = "idle" /\ poll' = poll)]_vars

\* C17 as stated: pollForProfile makes at most maxAttempts queries, stops at
\* the first one that finds the row, waits between two attempts the doubled
\* base delay and a jitter below 200 ms, and terminates.
C17_PollBoundedBackoff ==
    /\ [](AttemptsBounded /\ DelayDoublesWithJitter)
    /\ StopsAtFirstFind
    /\ (Polling ~> ~Polling)

\* C17, amended: the same, where the delay after a query that threw is
\* 1000 ms in Signup.tsx and the base delay without jitter in part_000.
C17_PollBoundedBackoffUnlessThrown ==
    /\ [](AttemptsBounded /\ DelayDoublesUnlessThrown)
    /\ StopsAtFirstFind
    /\ (Polling ~> ~Polling)

\* C17: the poll of Signup.tsx waits after its tenth query, which threw.
C17_Witness ==
    /\ suPage = "Signup"
    /\ suCall = "wait"
    /\ poll.attempt = maxAttempts
    /\ poll.threw

\* C18: when pollForProfile returned without having found the row, the
\* page shows an error and no message that the account was created.
C18_TimeoutSurfaced ==
    (pollResult = "timeout" /\ suCall = "idle" /\ poll.attempt > 0) =>
        (suError # "none" /\ suMessage = "none")

-----------------------------------------------------------------------------
(* Properties of the requests sent again after a failure.                  *)

\* The insert of the CSR page was answered with an error, and the insert of
\* the member row was.
CsrInsertFailed == csrCall.pc = "answered" /\ csrCall.result # "ok"
ProfileInsertFailed ==
    profileCall.pc = "insert" /\ profileCall'.result # "Profile created. Reloading..."

-----------------------------------------------------------------------------
(* Properties of the guard and the IdleTimer together.                     *)

\* A sign-out for inactivity starts: the logout timer of the guard or the
\* timer of the IdleTimer has fired.
InactivitySignOutStarts ==
    \E cause \in {"idle", "idle timer"} :
        cause \notin signingOut /\ cause \in signingOut'

\* The guard is in its Warning state and the warning window has elapsed.
WarningWindowElapsed == showWarning /\ Due(warningTimeout)

\* C20 as stated: on a protected route, with the guard and the IdleTimer
\* taken together, a sign-out for inactivity starts only from the Warning
\* state, when the warning was set and its warning window has elapsed.
C20_SignOutOnlyFromWarning ==
    [][(Mounted /\ InactivitySignOutStarts) => WarningWindowElapsed]_vars

\* The same of the guard alone, which holds.
GuardSignOutOnlyFromWarning ==
    [][(Mounted /\ "idle" \notin signingOut /\ "idle" \in signingOut')
          => WarningWindowElapsed]_vars

\* The IdleTimer signed a user out who had a session and was on a wrapped
\* route, after idleTimeout idle minutes and with no warning set.
SignedOutWithoutWarning ==
    /\ Mounted /\ hasSession /\ ~loading
    /\ "idle timer" \in signingOut
    /\ ~showWarning
    /\ idle = idleTimeout

-----------------------------------------------------------------------------
(* Properties of the change-notification channels.                         *)

\* The last change was to a table the mounted page fetches from.
ChangeToShownTable ==
    /\ lastEvent # NoEvent
    /\ lastEvent.shown # NoMount
    /\ lastEvent.table \in FetchedTables(lastEvent.shown.page)

\* C21: on every page, an insert, update or delete on any table whose rows
\* the page displays starts a fetch of that page; the dashboard fetches also
\* when a contribution row or a member row changes.
C21_ChangeRefetchesShownPage ==
    ChangeToShownTable => lastEvent.shown \in lastEvent.fetched

\* A contribution row changed while the dashboard was mounted and no fetch
\* of the dashboard was started.
DashboardMissedContribution ==
    /\ lastEvent.shown.page = "Dashboard"
    /\ lastEvent.table = "contributions"
    /\ lastEvent.fetched = {}

\* C29: after any sequence of mounts and unmounts no channel of an unmounted
\* page is subscribed and no fetch is started for an unmounted page.
C29_NoChannelOfUnmountedPage ==
    /\ \A c \in channels : [page |-> c.page, mount |-> c.mount] = rtPage
    /\ lastEvent.fetched \subseteq {lastEvent.shown}

\* The same for the pages other than Expenses.
OtherPagesUnsubscribe ==
    /\ \A c \in channels :
        c.page # "Expenses" => [page |-> c.page, mount |-> c.mount] = rtPage
    /\ \A f \in lastEvent.fetched : f.page # "Expenses" => f = lastEvent.shown

\* An expense changed after the Expenses page was left, and its fetch ran.
ExpensesFetchedAfterUnmount ==
    /\ lastEvent.shown = NoMount
    /\ \E f \in lastEvent.fetched : f.page = "Expenses"

-----------------------------------------------------------------------------
(* Properties of the duplicate member rows.                                *)

\* The rows of the account that the members table holds.
AccountRows == RowsWithId(membersTable, UserId)

\* C22: after deleteDuplicateMembers succeeds exactly one member row remains
\* for the account, the first of the detected duplicates; after
\* consolidateDuplicates succeeds exactly one remains, the row selected to
\* keep; both in the members table and in the list of the page.
C22_DedupLeavesOneRow ==
    /\ (dedupDone.result = "ok" /\ dedupDone.op = "delete")
        => /\ AccountRows = <<dedupDone.list[1]>>
           /\ duplicateMembers = <<dedupDone.list[1]>>
    /\ (dedupDone.result = "ok" /\ dedupDone.op = "consolidate")
        => /\ Len(AccountRows) = 1 /\ AccountRows[1].id = dedupDone.keep
           /\ duplicateMembers = AccountRows

\* deleteDuplicateMembers succeeded and no row of the account is left.
DeleteLeftNoRow ==
    /\ dedupDone.result = "ok" /\ dedupDone.op = "delete"
    /\ Len(dedupDone.list) > 1
    /\ AccountRows = <<>>
    /\ Len(duplicateMembers) = 1

\* consolidateDuplicates succeeded and every duplicate is still there.
ConsolidateLeftAllRows ==
    /\ dedupDone.result = "ok" /\ dedupDone.op = "consolidate"
    /\ Len(AccountRows) > 1
    /\ duplicateMembers = AccountRows

-----------------------------------------------------------------------------
(* Properties of the guard after its unmount.                              *)

NoGuardTimerArmed == ~timeout.armed /\ ~warningTimeout.armed /\ ~authTimeout.armed

\* C23: after a ProtectedRoute was unmounted none of its timers remains
\* scheduled and it triggers no sign-out and no redirect, also when the
\* session check it started resolves after the unmount.
C23_UnmountedGuardInert ==
    /\ [](~Mounted => NoGuardTimerArmed)
    /\ [][~Mounted => (signingOut' = signingOut /\ path' = path)]_vars

\* The cleanup itself leaves no timer armed.
CleanupClearsTimers ==
    [][(Mounted /\ ~Mounted') => NoGuardTimerArmed']_vars

\* getSession answered with a session after the unmount and the inactivity
\* timer of the unmounted guard is running.
TimerArmedAfterUnmount ==
    /\ ~Mounted
    /\ authPc = "done" /\ sessionSeen
    /\ timeout.armed

\* The unmounted guard has called signOut() from its logout timer.
UnmountedGuardSignsOut ==
    /\ ~Mounted
    /\ "idle" \in signingOut

-----------------------------------------------------------------------------
(* Properties of the guard while the session is looked up.                 *)

\* C24: a user with a valid persisted session is not signed out by the
\* guard when the application loads: the guard calls sign-out for a missing
\* session only after the lookup has reported that there is none, never
\* while the lookup is still pending.
C24_SignOutOnlyAfterLookup ==
    [][("no session" \in signingOut' /\ "no session" \notin signingOut)
          => (authPc' = "done" /\ ~hasSession)]_vars

\* The stored session of the user was removed by the guard while
\* getSession() had not answered.
SignedOutWhileLookupPending ==
    /\ authPc = "pending"
    /\ signedOut = [cause |-> "no session", result |-> "ok"]
    /\ ~hasSession
    /\ path = "/login"

-----------------------------------------------------------------------------
(* Properties of overlapping fetches of the Contributions page.            *)

\* No call of the handler, no fetch and no change event is under way.
Quiescent ==
    /\ \A k \in Calls : subs[k].pc = "idle"
    /\ fetches = <<>>
    /\ pendingChanges = 0

NoTempRow(list) == \A i \in DOMAIN list : ~IsTempId(list[i].id)

\* C25: when overlapping fetches of the contributions page have all
\* completed and the table has stopped changing, the list equals the table
\* contents and holds no temporary-id row: an earlier-started fetch never
\* overwrites the result of a later-started one.
C25_OverlappingFetchesConverge ==
    Quiescent => (contributions = Selected /\ NoTempRow(contributions))

\* The optimistic rows are gone once everything has completed.
NoTempRowWhenQuiescent == Quiescent => NoTempRow(contributions)

\* Everything has completed and the list of the page is not the table
\* contents, in the page of Dashboard.tsx and in that of part_003.
StaleListWhenQuiescent ==
    /\ Quiescent
    /\ variant = "Dashboard"
    /\ contributions # Selected

StaleListWhenQuiescentVariant ==
    /\ Quiescent
    /\ variant = "part_003"
    /\ contributions # Selected

-----------------------------------------------------------------------------
(* Properties of the admin flag over sign-out.                             *)

\* C26: the admin-validated flag does not outlive the login session: after
\* a sign-out, no page gives the next user of the tab its admin-gated
\* actions from a flag stored before that login.
C26_FlagEndsWithSession ==
    (adminPage # NoPage /\ isAdmin /\ adminVia = "storage")
        => PageKey(adminPage) \notin flagsAtLogin

\* What the password of this login stored is found by later pages.
FlagFromThisLoginFound ==
    /\ adminPage # NoPage /\ isAdmin /\ adminVia = "storage"
    /\ PageKey(adminPage) \notin flagsAtLogin

\* The Expenses page of the next user shows Approve and Reject from the
\* flag the user before stored.
FlagOutlivedSignOut ==
    /\ adminPage # NoPage /\ adminPage.name = "Expenses"
    /\ isAdmin /\ adminVia = "storage"
    /\ AdminKey \in flagsAtLogin

-----------------------------------------------------------------------------
(* Properties of the rows the Expenses page writes (SpecExpenses).         *)

ApproverMatchesStatus(r) == (r.approved_by # "null") <=> (r.status = "Approved")

\* C27: every row of the expenses table the page wrote has approved_by set,
\* to "Admin", exactly when its status is "Approved": a new row is Pending
\* with no approver, approving sets the approver, rejecting clears it.
C27_ApproverExactlyWhenApproved ==
    \A i \in DOMAIN expensesTable :
        /\ ApproverMatchesStatus(expensesTable[i])
        /\ expensesTable[i].approved_by \in {"null", "Admin"}

\* The same for the rows Expenses.tsx writes.
ExpensesTsxApproverMatches ==
    expSource = "Expenses.tsx" =>
        \A i \in DOMAIN expensesTable :
            /\ ApproverMatchesStatus(expensesTable[i])
            /\ expensesTable[i].approved_by \in {"null", "Admin"}

\* In part_004 every row that went through updateExpenseStatus satisfies it,
\* and a row that did not has the approver "Pending".
Part004ApproverMatches ==
    expSource = "part_004" =>
        \A i \in DOMAIN expensesTable :
            \/ /\ ApproverMatchesStatus(expensesTable[i])
               /\ expensesTable[i].approved_by \in {"null", "Admin"}
            \/ /\ expensesTable[i].status = "Pending"
               /\ expensesTable[i].approved_by = "Pending"

\* A row logged by part_004 is Pending and names "Pending" as its approver.
PendingRowWithApprover ==
    /\ expSource = "part_004"
    /\ \E i \in DOMAIN expensesTable :
          /\ expensesTable[i].status = "Pending"
          /\ expensesTable[i].approved_by = "Pending"

\* A row of Expenses.tsx was approved and then rejected: no approver is left.
RejectedAfterApproval ==
    /\ expSource = "Expenses.tsx"
    /\ \E i \in DOMAIN expensesTable :
          /\ expensesTable[i].status = "Rejected"
          /\ expensesTable[i].approved_by = "null"
    /\ \E i \in DOMAIN expensesTable : expensesTable[i].status = "Approved"

\* The rows the select returns now for the page number and filters in state.
RowsOfState == Query(expensesTable, expPage, statusFilter, startDate, endDate)

\* C28: when a fetch of Expenses.tsx has completed, the rows shown are those
\* of the page number and of the status and date filters the page state
\* holds, also when a change notification or a logged expense started it.
C28_ShownRowsMatchPageState ==
    (expSource = "Expenses.tsx" /\ justFetched # NoExpFetch) =>
        expensesShown = RowsOfState

\* A fetch started by the Previous or Next button, completed with the page
\* number and the filters as they were at the click, shows their rows.
ButtonFetchMatchesPageState ==
    (/\ justFetched.by = "button"
     /\ justFetched.page = expPage
     /\ justFetched.status = statusFilter
     /\ justFetched.start = startDate
     /\ justFetched.end = endDate) => expensesShown = RowsOfState

\* A change notification arrived while page 2 was shown: the fetch has
\* completed, the page number is still 2 and the rows are those of page 1.
ChangeFetchShowsFirstPage ==
    /\ expSource = "Expenses.tsx"
    /\ justFetched.by = "change"
    /\ expPage = 2
    /\ statusFilter = "all" /\ startDate = NoDate /\ endDate = NoDate
    /\ expensesShown = Query(expensesTable, 1, "all", NoDate, NoDate)
    /\ expensesShown # RowsOfState

\* An expense was logged while page 2 was shown: the fetch that follows has
\* completed, the page number is still 2 and the rows are those of page 1.
AddFetchShowsFirstPage ==
    /\ expSource = "Expenses.tsx"
    /\ justFetched.by = "add"
    /\ expPage = 2
    /\ statusFilter = "all" /\ startDate = NoDate /\ endDate = NoDate
    /\ expensesShown = Query(expensesTable, 1, "all", NoDate, NoDate)
    /\ expensesShown # RowsOfState

\* A change notification arrived after a status filter was applied: the
\* rows shown are unfiltered while the state holds the filter.
ChangeFetchDropsFilter ==
    /\ expSource = "Expenses.tsx"
    /\ justFetched.by = "change"
    /\ expPage = 1
    /\ statusFilter = "Approved"
    /\ \E i \in DOMAIN expensesShown : expensesShown[i].status # "Approved"

-----------------------------------------------------------------------------
(* Properties of the bulk upload (SpecBulk).                               *)

\* The members the running upload has created.
CreatedMembers ==
    {bulkTable[i] : i \in {j \in DOMAIN bulkTable : j > Len(bulkMembers)}}

\* C30: an upload creates at most one member per distinct name, compared
\* without case: the rows of one upload that name the same new member share
\* the one member created for them.
C30_OneMemberPerName ==
    \A n \in BulkNames \ {<<>>} :
        Cardinality({m \in CreatedMembers :
                        ToLowerCase(m.name) = ToLowerCase(n)}) <= 1

\* A row that names a member the page had fetched creates no member: its
\* contribution carries the id of the fetched member.
FetchedMemberReused ==
    \A m \in CreatedMembers : FindMember(bulkMembers, m.name) = 0

\* Two rows of one upload named the same new member: two members exist and
\* the contributions of the two rows are attached to different members.
TwoMembersForOneName ==
    /\ bulkOutcome = "upserted"
    /\ \E a, b \in CreatedMembers :
          /\ a.id # b.id
          /\ ToLowerCase(a.name) = ToLowerCase(b.name)
          /\ \E c, d \in {contributionsToAdd[k] : k \in DOMAIN contributionsToAdd} :
                c.member_id = a.id /\ d.member_id = b.id
====
